---- MODULE Spec2Model ----
(***************************************************************************)
(* Model of the event pipeline of cambridge-events-api:                    *)
(*   src/src/utils/deduplicator.py   EventDeduplicator                     *)
(*   src/src/utils/validator.py      EventValidator                        *)
(*   src/scrape.py                   ScraperOrchestrator, main             *)
(* Text is a sequence of one-character strings, so that the matching of    *)
(* difflib.SequenceMatcher is computed character by character.  A start    *)
(* time is a number of seconds of local civil time.  An empty text stands  *)
(* for both None and "" (Python treats both as false).                     *)
(***************************************************************************)
EXTENDS Integers, Sequences, FiniteSets, TLC

(***************************************************************************)
(* Text: str.lower, and difflib.SequenceMatcher(None, a, b).ratio()        *)
(***************************************************************************)
UpperChars == <<"A","B","C","D","E","F","G","H","I","J","K","L","M",
                "N","O","P","Q","R","S","T","U","V","W","X","Y","Z">>
LowerChars == <<"a","b","c","d","e","f","g","h","i","j","k","l","m",
                "n","o","p","q","r","s","t","u","v","w","x","y","z">>

\* str.lower on one character
lower_char(c) ==
  IF \E i \in 1..Len(UpperChars) : UpperChars[i] = c
    THEN LowerChars[CHOOSE i \in 1..Len(UpperChars) : UpperChars[i] = c]
    ELSE c

\* str.lower
lower(text) == [i \in 1..Len(text) |-> lower_char(text[i])]

\* Length of the common run of a and b that starts at offsets i and j
\* (0-based, as in difflib) and stays below ahi and bhi.
RECURSIVE RunLen(_, _, _, _, _, _)
RunLen(a, b, i, j, ahi, bhi) ==
  IF i < ahi /\ j < bhi /\ a[i + 1] = b[j + 1]
    THEN 1 + RunLen(a, b, i + 1, j + 1, ahi, bhi)
    ELSE 0

MaxOf(S) == CHOOSE k \in S : \A n \in S : n <= k

MinOf(S) == CHOOSE k \in S : \A n \in S : k <= n

\* The block of size best that starts earliest in a, and of those the one
\* that starts earliest in b.
earliest_block(longest, besti, best) ==
  <<besti, MinOf({p[2] : p \in {q \in longest : q[1] = besti}}), best>>

longest_block(size, best, alo, blo) ==
  IF best = 0 THEN <<alo, blo, 0>>
  ELSE earliest_block({p \in DOMAIN size : size[p] = best},
                      MinOf({p[1] : p \in {q \in DOMAIN size : size[q] = best}}),
                      best)

largest_block(size, alo, blo) ==
  longest_block(size,
                IF DOMAIN size = {} THEN 0
                ELSE MaxOf({size[p] : p \in DOMAIN size}),
                alo, blo)

\* SequenceMatcher.find_longest_match(alo, ahi, blo, bhi) without junk:
\* a longest block a[i:i+k] = b[j:j+k]; of the longest blocks the one that
\* starts earliest in a, and of those the one that starts earliest in b.
\* <<alo, blo, 0>> when nothing matches.
find_longest_match(a, b, alo, ahi, blo, bhi) ==
  largest_block([p \in (alo..(ahi - 1)) \X (blo..(bhi - 1)) |->
                   RunLen(a, b, p[1], p[2], ahi, bhi)],
                alo, blo)

\* SequenceMatcher.get_matching_blocks: the sum of the sizes of the blocks
\* found by splitting recursively around the longest match m = <<i, j, k>>.
RECURSIVE matching_size(_, _, _, _, _, _)
split_around(a, b, alo, ahi, blo, bhi, i, j, k) ==
  IF k = 0 THEN 0
  ELSE k
       + (IF alo < i /\ blo < j
            THEN matching_size(a, b, alo, i, blo, j) ELSE 0)
       + (IF i + k < ahi /\ j + k < bhi
            THEN matching_size(a, b, i + k, ahi, j + k, bhi) ELSE 0)

around_match(a, b, alo, ahi, blo, bhi, m) ==
  split_around(a, b, alo, ahi, blo, bhi, m[1], m[2], m[3])

matching_size(a, b, alo, ahi, blo, bhi) ==
  around_match(a, b, alo, ahi, blo, bhi,
               find_longest_match(a, b, alo, ahi, blo, bhi))

\* SequenceMatcher.ratio() = 2.0 * matches / (len(a) + len(b)), and 1.0 for
\* two empty texts, as the pair <<numerator, denominator>>.
ratio(a, b) ==
  IF Len(a) + Len(b) = 0 THEN <<1, 1>>
  ELSE <<2 * matching_size(a, b, 0, Len(a), 0, Len(b)), Len(a) + Len(b)>>

\* The texts of the candidate lists below, case-folded; their ratios are
\* computed once.
TitleA == <<"a","a","a","a","a","b","a">>
TitleB == <<"a","a","b","a","a","a","b">>
TitleUpperA == <<"A","A","A","A","A","B","A">>
TitleC == <<"a","a","a","a","a","b">>
VenueAb == <<"a","b">>
VenueAbc == <<"A","b","c">>
VenueZz == <<"z","z">>
KnownTexts ==
  { lower(t) : t \in {TitleA, TitleB, TitleUpperA, TitleC,
                      VenueAb, VenueAbc, VenueZz} }
KnownRatio == [p \in KnownTexts \X KnownTexts |-> ratio(p[1], p[2])]

\* ratio(text1, text2), looked up when it is known
Ratio(text1, text2) ==
  IF <<text1, text2>> \in DOMAIN KnownRatio
    THEN KnownRatio[<<text1, text2>>]
    ELSE ratio(text1, text2)

\* EventDeduplicator.text_similarity
text_similarity(text1, text2) == Ratio(text1, text2)

\* r < pct / 100 for a ratio r = <<numerator, denominator>>
RatioBelow(r, pct) == r[1] * 100 < pct * r[2]

(***************************************************************************)
(* Candidates (EventCreate).  The fields the pipeline reads or writes are  *)
(* kept; end time, all-day flag, postal code, age restriction, cost,       *)
(* registration flag, source URL and recurrence only pass through.         *)
(* latitude and longitude are <<>> for None and <<x>> for the float x.     *)
(***************************************************************************)
TruthyFloat(v) == v # <<>> /\ v[1] # 0

\* EventCreate(...): the fields a scraper sets; the rest default to None.
EventCreate(title, description, start, venue, source) ==
  [ title |-> title, description |-> description, start_datetime |-> start,
    tz_aware |-> FALSE, venue_name |-> venue, street_address |-> <<>>,
    city |-> "", state |-> <<>>, latitude |-> <<>>, longitude |-> <<>>,
    category |-> "", tags |-> {}, source_name |-> source,
    contact_email |-> "", contact_phone |-> "", website_url |-> "",
    image_url |-> "", family_friendly |-> FALSE ]

Abs(x) == IF x < 0 THEN -x ELSE x

\* source names (BaseScraper.source_name of the scrapers)
LAMPLIGHTER ==
  <<"L","a","m","p","l","i","g","h","t","e","r"," ","B","r","e","w","i","n","g">>
HARVARD_BOOK_STORE ==
  <<"H","a","r","v","a","r","d"," ","B","o","o","k"," ","S","t","o","r","e">>
BOSTON_SWING ==
  <<"B","o","s","t","o","n"," ","S","w","i","n","g"," ","C","e","n","t","r","a","l">>
AERONAUT ==
  <<"A","e","r","o","n","a","u","t"," ","B","r","e","w","i","n","g">>
COMEDY_STUDIO ==
  <<"T","h","e"," ","C","o","m","e","d","y"," ","S","t","u","d","i","o">>
SOMERVILLE_THEATRE ==
  <<"S","o","m","e","r","v","i","l","l","e"," ","T","h","e","a","t","r","e">>
LILY_PAD ==
  <<"T","h","e"," ","L","i","l","y"," ","P","a","d">>
BRATTLE ==
  <<"B","r","a","t","t","l","e"," ","T","h","e","a","t","r","e">>


(***************************************************************************)
(* EventDeduplicator                                                       *)
(***************************************************************************)
\* the title check of are_duplicates accepts a ratio of at least 85/100
TITLE_THRESHOLD == 85
\* the venue check of are_duplicates accepts a ratio of at least 70/100
VENUE_THRESHOLD == 70
\* the time check of are_duplicates accepts a difference of at most 1 hour
MAX_TIME_DIFF == 3600

\* are_duplicates as a plausible slip would have it: a difference of exactly
\* one hour is rejected (>= for >).
are_duplicates_strict_hour(event1, event2) ==
  IF RatioBelow(text_similarity(lower(event1.title), lower(event2.title)),
                TITLE_THRESHOLD)
    THEN FALSE
  ELSE IF Abs(event1.start_datetime - event2.start_datetime) >= MAX_TIME_DIFF
    THEN FALSE
  ELSE IF event1.venue_name # <<>> /\ event2.venue_name # <<>>
          /\ RatioBelow(text_similarity(lower(event1.venue_name),
                                        lower(event2.venue_name)),
                        VENUE_THRESHOLD)
    THEN FALSE
  ELSE TRUE

\* EventDeduplicator.are_duplicates
are_duplicates(event1, event2) ==
  LET title_similarity ==
        text_similarity(lower(event1.title), lower(event2.title))
      time_diff == Abs(event1.start_datetime - event2.start_datetime)
  IN IF RatioBelow(title_similarity, TITLE_THRESHOLD) THEN FALSE
     ELSE IF time_diff > MAX_TIME_DIFF THEN FALSE
     ELSE IF event1.venue_name # <<>> /\ event2.venue_name # <<>>
       THEN LET venue_similarity ==
                  text_similarity(lower(event1.venue_name),
                                  lower(event2.venue_name))
            IN IF RatioBelow(venue_similarity, VENUE_THRESHOLD)
                 THEN FALSE ELSE TRUE
     ELSE TRUE

\* The inner loop as full single linkage: j joins the group when it is a
\* duplicate of any member the group has so far, not of the anchor only.
RECURSIVE scan_later_any_member(_, _, _, _, _)
scan_later_any_member(evs, i, j, duplicates, processed) ==
  IF j > Len(evs) THEN <<duplicates, processed>>
  ELSE IF j \in processed
    THEN scan_later_any_member(evs, i, j + 1, duplicates, processed)
  ELSE IF \E k \in 1..Len(duplicates) :
            are_duplicates(evs[duplicates[k]], evs[j])
    THEN scan_later_any_member(evs, i, j + 1, Append(duplicates, j),
                               processed \cup {j})
  ELSE scan_later_any_member(evs, i, j + 1, duplicates, processed)

\* The inner loop without the marking of the members as processed.
RECURSIVE scan_later_unmarked(_, _, _, _, _)
scan_later_unmarked(evs, i, j, duplicates, processed) ==
  IF j > Len(evs) THEN <<duplicates, processed>>
  ELSE IF j \in processed
    THEN scan_later_unmarked(evs, i, j + 1, duplicates, processed)
  ELSE IF are_duplicates(evs[i], evs[j])
    THEN scan_later_unmarked(evs, i, j + 1, Append(duplicates, j), processed)
  ELSE scan_later_unmarked(evs, i, j + 1, duplicates, processed)

\* The inner loop of find_duplicates: j runs from `j` to the end of the list
\* and joins the anchor's group when it is unprocessed and a duplicate of
\* the anchor events[i].  Yields <<duplicates, processed_indices>>.
RECURSIVE scan_later(_, _, _, _, _)
scan_later(evs, i, j, duplicates, processed) ==
  IF j > Len(evs) THEN <<duplicates, processed>>
  ELSE IF j \in processed THEN scan_later(evs, i, j + 1, duplicates, processed)
  ELSE IF are_duplicates(evs[i], evs[j])
    THEN scan_later(evs, i, j + 1, Append(duplicates, j), processed \cup {j})
  ELSE scan_later(evs, i, j + 1, duplicates, processed)

\* The outer loop emitting every anchor's group, those of one member too.
RECURSIVE scan_anchors_singletons(_, _, _, _)
scan_anchors_singletons(evs, i, duplicate_groups, processed) ==
  IF i > Len(evs) THEN duplicate_groups
  ELSE IF i \in processed
    THEN scan_anchors_singletons(evs, i + 1, duplicate_groups, processed)
  ELSE LET r == scan_later(evs, i, i + 1, <<i>>, processed)
       IN scan_anchors_singletons(evs, i + 1, Append(duplicate_groups, r[1]),
                                  r[2] \cup {i})

\* The outer loop of find_duplicates from anchor i on.
RECURSIVE scan_anchors(_, _, _, _)
scan_anchors(evs, i, duplicate_groups, processed) ==
  IF i > Len(evs) THEN duplicate_groups
  ELSE IF i \in processed
    THEN scan_anchors(evs, i + 1, duplicate_groups, processed)
  ELSE LET r == scan_later(evs, i, i + 1, <<i>>, processed)
       IN IF Len(r[1]) > 1
            THEN scan_anchors(evs, i + 1, Append(duplicate_groups, r[1]),
                              r[2] \cup {i})
            ELSE scan_anchors(evs, i + 1, duplicate_groups, r[2])

\* EventDeduplicator.find_duplicates: groups of (1-based) indices
find_duplicates(evs) == scan_anchors(evs, 1, <<>>, {})

\* One round of the loop of merge_duplicates: fold `event` into `merged`.
merge_one(merged, event) ==
  [ merged EXCEPT
      !.description = IF Len(event.description) > Len(merged.description)
                        THEN event.description ELSE @,
      !.venue_name = IF event.venue_name # <<>> /\ @ = <<>>
                       THEN event.venue_name ELSE @,
      !.street_address = IF event.street_address # <<>> /\ @ = <<>>
                           THEN event.street_address ELSE @,
      !.latitude = IF TruthyFloat(event.latitude) /\ ~TruthyFloat(@)
                     THEN event.latitude ELSE @,
      !.longitude = IF TruthyFloat(event.latitude)
                       /\ ~TruthyFloat(merged.latitude)
                      THEN event.longitude ELSE @,
      !.category = IF event.category # "" /\ @ = ""
                     THEN event.category ELSE @,
      !.tags = @ \cup event.tags,
      !.contact_email = IF event.contact_email # "" /\ @ = ""
                          THEN event.contact_email ELSE @,
      !.contact_phone = IF event.contact_phone # "" /\ @ = ""
                          THEN event.contact_phone ELSE @,
      !.website_url = IF event.website_url # "" /\ @ = ""
                        THEN event.website_url ELSE @,
      !.image_url = IF event.image_url # "" /\ @ = ""
                      THEN event.image_url ELSE @ ]

RECURSIVE merge_from(_, _, _)
merge_from(merged, evs, k) ==
  IF k > Len(evs) THEN merged
  ELSE merge_from(merge_one(merged, evs[k]), evs, k + 1)

\* EventDeduplicator.merge_duplicates, for a non-empty list (an empty one
\* raises ValueError; deduplicate_events never passes one).
merge_duplicates(evs) ==
  IF Len(evs) = 1 THEN evs[1] ELSE merge_from(evs[1], evs, 2)

\* the indices of all groups
GroupedIndices(groups) ==
  UNION { {groups[g][k] : k \in 1..Len(groups[g])} : g \in 1..Len(groups) }

\* the events at the indices of one group, in the group's order
GroupEvents(evs, group) == [k \in 1..Len(group) |-> evs[group[k]]]

\* the events whose index is not in `processed`, in list order
RECURSIVE non_duplicates(_, _, _)
non_duplicates(evs, i, processed) ==
  IF i > Len(evs) THEN <<>>
  ELSE IF i \in processed THEN non_duplicates(evs, i + 1, processed)
  ELSE <<evs[i]>> \o non_duplicates(evs, i + 1, processed)

\* EventDeduplicator.deduplicate_events
deduplicate_events(evs) ==
  IF evs = <<>> THEN <<>>
  ELSE LET duplicate_groups == find_duplicates(evs)
           merged_events ==
             [g \in 1..Len(duplicate_groups) |->
                merge_duplicates(GroupEvents(evs, duplicate_groups[g]))]
       IN merged_events
          \o non_duplicates(evs, 1, GroupedIndices(duplicate_groups))

(***************************************************************************)
(* EventValidator: text cleaning                                           *)
(***************************************************************************)
Whitespace == {" ", "\t", "\n"}
Digits == {"0","1","2","3","4","5","6","7","8","9"}
LowerLetters == {LowerChars[i] : i \in 1..Len(LowerChars)}
UpperLetters == {UpperChars[i] : i \in 1..Len(UpperChars)}
TerminalMarks == {"!", "?", "."}

\* text[from..to], empty when from > to
Slice(text, from, to) == [k \in 1..(to - from + 1) |-> text[from + k - 1]]

\* str.strip
strip(text) ==
  LET keep == {i \in 1..Len(text) : text[i] \notin Whitespace}
  IN IF keep = {} THEN <<>>
     ELSE Slice(text, CHOOSE i \in keep : \A k \in keep : i <= k,
                      CHOOSE i \in keep : \A k \in keep : k <= i)

\* ' '.join(text.split()): runs of whitespace become one space, and the
\* whitespace at both ends goes
RECURSIVE join_words(_, _, _)
join_words(text, i, pending) ==
  IF i > Len(text) THEN <<>>
  ELSE IF text[i] \in Whitespace THEN join_words(text, i + 1, TRUE)
  ELSE (IF pending THEN <<" ">> ELSE <<>>) \o <<text[i]>>
       \o join_words(text, i + 1, FALSE)

normalize_whitespace(text) ==
  LET t == strip(text) IN join_words(t, 1, FALSE)

\* the number of characters of `chars` in a row from text[i] on
RECURSIVE run_of(_, _, _)
run_of(text, i, chars) ==
  IF i <= Len(text) /\ text[i] \in chars
    THEN 1 + run_of(text, i + 1, chars) ELSE 0

\* re.sub(r'&[a-z]+;', ' ', text) from text[i] on
RECURSIVE remove_entities(_, _)
remove_entities(text, i) ==
  IF i > Len(text) THEN <<>>
  ELSE LET n == run_of(text, i + 1, LowerLetters)
       IN IF text[i] = "&" /\ n >= 1 /\ i + n + 1 <= Len(text)
             /\ text[i + n + 1] = ";"
            THEN <<" ">> \o remove_entities(text, i + n + 2)
            ELSE <<text[i]>> \o remove_entities(text, i + 1)

\* re.sub(r'([!?.]){2,}', r'\1', text) from text[i] on: a run of two or more
\* marks becomes the last mark of the run
RECURSIVE collapse_marks(_, _)
collapse_marks(text, i) ==
  IF i > Len(text) THEN <<>>
  ELSE LET n == run_of(text, i, TerminalMarks)
       IN IF n >= 2
            THEN <<text[i + n - 1]>> \o collapse_marks(text, i + n)
            ELSE <<text[i]>> \o collapse_marks(text, i + 1)

\* EventValidator.clean_text
clean_text(text) ==
  IF text = <<>> THEN <<>>
  ELSE strip(collapse_marks(remove_entities(normalize_whitespace(text), 1), 1))

(***************************************************************************)
(* EventValidator: validation and enrichment                               *)
(***************************************************************************)
\* `pat in text`
Contains(text, pat) ==
  \E i \in 1..(Len(text) - Len(pat) + 1) :
    \A k \in 1..Len(pat) : text[i + k - 1] = pat[k]

\* \w of the regular expressions
IsWordChar(c) ==
  c \in LowerLetters \cup UpperLetters \cup Digits \cup {"_", "e_acute"}

\* re.search(r'\bpat\b', text) for a pattern of literal characters that
\* starts and ends with a word character
WordSearch(text, pat) ==
  \E i \in 1..(Len(text) - Len(pat) + 1) :
    /\ \A k \in 1..Len(pat) : text[i + k - 1] = pat[k]
    /\ (i = 1 \/ ~IsWordChar(text[i - 1]))
    /\ (i + Len(pat) > Len(text) \/ ~IsWordChar(text[i + Len(pat)]))

\* is_low_quality_title: generic single words
generic_words ==
  { <<"e","v","e","n","t">>,
    <<"s","h","o","w">>,
    <<"p","e","r","f","o","r","m","a","n","c","e">>,
    <<"i","m","a","g","e">>,
    <<"h","o","m","e">>,
    <<"c","a","l","e","n","d","a","r">> }

\* is_low_quality_title: UI and navigation text
ui_text ==
  { <<"j","u","m","p"," ","t","o">>,
    <<"c","l","i","c","k"," ","h","e","r","e">>,
    <<"m","o","r","e"," ","i","n","f","o">>,
    <<"i","f","r","a","m","e">>,
    <<"p","l","e","a","s","e"," ","u","p","d","a","t","e">> }

\* is_low_quality_title: the months of the date pattern
month_abbreviations ==
  { <<"j","a","n">>,
    <<"f","e","b">>,
    <<"m","a","r">>,
    <<"a","p","r">>,
    <<"m","a","y">>,
    <<"j","u","n">>,
    <<"j","u","l">>,
    <<"a","u","g">>,
    <<"s","e","p">>,
    <<"o","c","t">>,
    <<"n","o","v">>,
    <<"d","e","c">> }

\* is_family_friendly: the phrases that count at or after 20:00
explicit_family ==
  { <<"a","l","l"," ","a","g","e","s">>,
    <<"a","l","l","-","a","g","e","s">>,
    <<"f","a","m","i","l","y"," ","f","r","i","e","n","d","l","y">>,
    <<"f","a","m","i","l","y","-","f","r","i","e","n","d","l","y">>,
    <<"f","a","m","i","l","y"," ","e","v","e","n","t">>,
    <<"f","a","m","i","l","y"," ","p","r","o","g","r","a","m">>,
    <<"f","a","m","i","l","y"," ","f","u","n">>,
    <<"f","a","m","i","l","y"," ","d","a","y">> }

\* is_family_friendly: the words matched between word boundaries
\* (kids?, bab(y|ies), toddlers?, ... written out)
boundary_keywords ==
  { <<"k","i","d">>,
    <<"k","i","d","s">>,
    <<"c","h","i","l","d","r","e","n">>,
    <<"c","h","i","l","d">>,
    <<"b","a","b","y">>,
    <<"b","a","b","i","e","s">>,
    <<"t","o","d","d","l","e","r">>,
    <<"t","o","d","d","l","e","r","s">>,
    <<"i","n","f","a","n","t">>,
    <<"i","n","f","a","n","t","s">>,
    <<"y","o","u","t","h">>,
    <<"t","e","e","n">>,
    <<"t","e","e","n","s">>,
    <<"t","e","e","n","a","g","e","r">>,
    <<"p","u","p","p","e","t">>,
    <<"p","u","p","p","e","t","s">>,
    <<"p","a","j","a","m","a">>,
    <<"p","a","j","a","m","a","s">>,
    <<"c","a","r","e","g","i","v","e","r">> }

\* is_family_friendly: the phrases matched anywhere
phrase_keywords ==
  { <<"s","t","o","r","y"," ","t","i","m","e">>,
    <<"s","t","o","r","y","t","i","m","e">>,
    <<"s","t","o","r","y"," ","h","o","u","r">>,
    <<"l","a","p","s","i","t">>,
    <<"l","a","p"," ","s","i","t">>,
    <<"f","a","m","i","l","y"," ","p","r","o","g","r","a","m">>,
    <<"f","a","m","i","l","y"," ","e","v","e","n","t">>,
    <<"f","a","m","i","l","y"," ","f","u","n">>,
    <<"f","a","m","i","l","y"," ","d","a","y">>,
    <<"p","u","p","p","e","t"," ","s","h","o","w">>,
    <<"a","l","l"," ","a","g","e","s">>,
    <<"a","l","l","-","a","g","e","s">>,
    <<"f","a","m","i","l","y"," ","f","r","i","e","n","d","l","y">>,
    <<"f","a","m","i","l","y","-","f","r","i","e","n","d","l","y">>,
    <<"a","g","e","s"," ","0">>,
    <<"a","g","e","s"," ","1">>,
    <<"a","g","e","s"," ","2">>,
    <<"a","g","e","s"," ","3">>,
    <<"a","g","e","s"," ","4">>,
    <<"a","g","e","s"," ","5">>,
    <<"a","g","e","s"," ","6">>,
    <<"a","g","e","s"," ","7">>,
    <<"a","g","e","s"," ","8">>,
    <<"a","g","e","s"," ","9">>,
    <<"a","g","e","s"," ","1","0">>,
    <<"a","g","e","s"," ","0","-">>,
    <<"a","g","e","s"," ","1","-">>,
    <<"a","g","e","s"," ","2","-">>,
    <<"a","g","e","s"," ","3","-">>,
    <<"a","g","e","s"," ","4","-">>,
    <<"a","g","e","s"," ","5","-">>,
    <<"a","r","t","s"," ","a","n","d"," ","c","r","a","f","t","s">>,
    <<"s","i","n","g"," ","a","l","o","n","g">>,
    <<"s","i","n","g","-","a","l","o","n","g">>,
    <<"s","i","n","g","a","l","o","n","g">>,
    <<"r","e","a","d"," ","a","l","o","u","d">>,
    <<"r","e","a","d","-","a","l","o","u","d">>,
    <<"p","l","a","y","g","r","o","u","p">>,
    <<"p","l","a","y"," ","g","r","o","u","p">>,
    <<"p","l","a","y","d","a","t","e">>,
    <<"p","l","a","y"," ","d","a","t","e">>,
    <<"p","j"," ","s","t","o","r","y","t","i","m","e">>,
    <<"p","r","e","s","c","h","o","o","l">>,
    <<"p","r","e","-","s","c","h","o","o","l">>,
    <<"k","i","n","d","e","r","g","a","r","t","e","n">>,
    <<"y","o","u","n","g"," ","r","e","a","d","e","r","s">>,
    <<"y","o","u","n","g"," ","r","e","a","d","e","r">>,
    <<"p","a","r","e","n","t"," ","a","n","d"," ","c","h","i","l","d">>,
    <<"p","a","r","e","n","t"," ","&"," ","c","h","i","l","d">> }

\* is_food_and_drink_event: venues that are never food and drink
excluded_venues ==
  { <<"l","i","b","r","a","r","y">>,
    <<"b","r","a","n","c","h">>,
    <<"m","u","s","e","u","m">>,
    <<"t","h","e","a","t","e","r">>,
    <<"t","h","e","a","t","r","e">>,
    <<"s","c","h","o","o","l">>,
    <<"c","h","u","r","c","h">> }

\* is_food_and_drink_event: known establishments
food_drink_venue_names ==
  { <<"l","a","m","p","l","i","g","h","t","e","r">>,
    <<"p","o","r","t","i","c","o"," ","b","r","e","w","i","n","g">>,
    <<"a","e","r","o","n","a","u","t">>,
    <<"n","i","g","h","t"," ","s","h","i","f","t">>,
    <<"i","d","l","e"," ","h","a","n","d","s">>,
    <<"l","a","m","p","l","i","g","h","t","e","r"," ","c","x">>,
    <<"l","a","m","p","l","i","g","h","t","e","r"," ","b","r","e","w","i","n","g">> }

\* is_food_and_drink_event: venue types, matched between word boundaries
\* (e_acute stands for the accented e of cafe)
food_drink_venue_types ==
  { <<"b","r","e","w","i","n","g">>,
    <<"b","r","e","w","e","r","y">>,
    <<"b","r","e","w","p","u","b">>,
    <<"t","a","p","r","o","o","m">>,
    <<"t","a","p"," ","r","o","o","m">>,
    <<"b","e","e","r"," ","g","a","r","d","e","n">>,
    <<"b","e","e","r"," ","h","a","l","l">>,
    <<"w","i","n","e","r","y">>,
    <<"w","i","n","e"," ","b","a","r">>,
    <<"d","i","s","t","i","l","l","e","r","y">>,
    <<"r","e","s","t","a","u","r","a","n","t">>,
    <<"c","a","f","e">>,
    <<"c","a","f","e_acute">>,
    <<"b","i","s","t","r","o">>,
    <<"d","i","n","e","r">>,
    <<"b","a","r">>,
    <<"p","u","b">>,
    <<"t","a","v","e","r","n">>,
    <<"l","o","u","n","g","e">>,
    <<"g","r","i","l","l">>,
    <<"e","a","t","e","r","y">>,
    <<"c","o","f","f","e","e","h","o","u","s","e">>,
    <<"c","o","f","f","e","e"," ","h","o","u","s","e">>,
    <<"b","a","k","e","r","y">>,
    <<"p","a","t","i","s","s","e","r","i","e">> }

\* is_food_and_drink_event: keywords of title and description
food_drink_keywords ==
  { <<"b","e","e","r">>,
    <<"w","i","n","e"," ","t","a","s","t","i","n","g">>,
    <<"c","o","c","k","t","a","i","l">>,
    <<"c","o","c","k","t","a","i","l","s">>,
    <<"s","p","i","r","i","t","s">>,
    <<"w","h","i","s","k","e","y">>,
    <<"b","o","u","r","b","o","n">>,
    <<"h","a","p","p","y"," ","h","o","u","r">>,
    <<"b","e","e","r"," ","t","a","s","t","i","n","g">>,
    <<"c","r","a","f","t"," ","b","e","e","r">>,
    <<"i","p","a">>,
    <<"l","a","g","e","r">>,
    <<"s","t","o","u","t">>,
    <<"c","i","d","e","r">>,
    <<"m","e","a","d">>,
    <<"f","o","o","d"," ","t","r","u","c","k">>,
    <<"f","o","o","d","t","r","u","c","k">>,
    <<"p","o","p","-","u","p"," ","d","i","n","n","e","r">>,
    <<"p","o","p","u","p"," ","d","i","n","n","e","r">>,
    <<"c","o","o","k","i","n","g"," ","c","l","a","s","s">>,
    <<"c","u","l","i","n","a","r","y">>,
    <<"f","a","r","m","e","r","s"," ","m","a","r","k","e","t">>,
    <<"f","a","r","m","e","r","'","s"," ","m","a","r","k","e","t">>,
    <<"f","o","o","d"," ","f","e","s","t","i","v","a","l">> }

\* timedelta(days=30) and timedelta(days=730) of validate_event, in days
PAST_DAYS == 30
FUTURE_DAYS == 730
\* the hour from which is_family_friendly wants an explicit phrase
EVENING_HOUR == 20
\* the shortest title and description validate_event accepts
MIN_TITLE == 3
MIN_DESCRIPTION == 10

\* EventValidator.is_low_quality_title
is_low_quality_title(title) ==
  LET title_lower == strip(lower(title))
      n == Len(title_lower)
  IN \/ n < MIN_TITLE
     \/ \A i \in 1..n : title_lower[i] \in Digits \cup Whitespace \cup {"/", "-", ":"}
     \/ \E m \in month_abbreviations :
          /\ n \in {4, 5}
          /\ Slice(title_lower, 1, 3) = m
          /\ \A i \in 4..n : title_lower[i] \in Digits
     \/ title_lower \in generic_words
     \/ \E t \in ui_text : Contains(title_lower, t)

\* validate_event with the check of the title's quality made before the
\* check of the description
validate_event_quality_first(event, now) ==
  IF event.title = <<>> \/ Len(strip(event.title)) < MIN_TITLE
    THEN <<FALSE, "Title is too short">>
  ELSE IF is_low_quality_title(event.title)
    THEN <<FALSE, "Title appears to be low quality">>
  ELSE IF event.description = <<>>
          \/ Len(strip(event.description)) < MIN_DESCRIPTION
    THEN <<FALSE, "Description is too short">>
  ELSE IF event.tz_aware THEN <<FALSE, "TypeError">>
  ELSE IF event.start_datetime < now - PAST_DAYS * 86400
    THEN <<FALSE, "Event date is too far in the past">>
  ELSE IF event.start_datetime > now + FUTURE_DAYS * 86400
    THEN <<FALSE, "Event date is too far in the future">>
  ELSE <<TRUE, "None">>

\* EventValidator.validate_event at local time `now`: the pair of is_valid
\* and the error message, or "TypeError" when the comparison of a start time
\* that carries a time zone with the naive local time raises.  (The check
\* `not event.start_datetime` never fires: the field is required and a
\* datetime is never false.)
validate_event(event, now) ==
  IF event.title = <<>> \/ Len(strip(event.title)) < MIN_TITLE
    THEN <<FALSE, "Title is too short">>
  ELSE IF event.description = <<>>
          \/ Len(strip(event.description)) < MIN_DESCRIPTION
    THEN <<FALSE, "Description is too short">>
  ELSE IF event.tz_aware THEN <<FALSE, "TypeError">>
  ELSE IF event.start_datetime < now - PAST_DAYS * 86400
    THEN <<FALSE, "Event date is too far in the past">>
  ELSE IF event.start_datetime > now + FUTURE_DAYS * 86400
    THEN <<FALSE, "Event date is too far in the future">>
  ELSE IF is_low_quality_title(event.title)
    THEN <<FALSE, "Title appears to be low quality">>
  ELSE <<TRUE, "None">>

\* datetime.hour of a start time
HourOf(start) == (start % 86400) \div 3600

\* f"{event.title} {event.description}".lower()
SearchText(event) == lower(event.title \o <<" ">> \o event.description)

\* is_family_friendly without the rule for the evening
is_family_friendly_any_hour(event) ==
  \/ \E w \in boundary_keywords : WordSearch(SearchText(event), w)
  \/ \E keyword \in phrase_keywords : Contains(SearchText(event), keyword)

\* EventValidator.is_family_friendly
is_family_friendly(event) ==
  LET text == SearchText(event)
  IN IF HourOf(event.start_datetime) >= EVENING_HOUR
        /\ ~ \E phrase \in explicit_family : Contains(text, phrase)
       THEN FALSE
     ELSE \/ \E w \in boundary_keywords : WordSearch(text, w)
          \/ \E keyword \in phrase_keywords : Contains(text, keyword)

\* is_food_and_drink_event with the excluded venues tested after the
\* names of the food and drink venues
is_food_and_drink_event_names_first(event) ==
  LET venue_lower == lower(event.venue_name)
      source_lower == lower(event.source_name)
      text == SearchText(event)
  IN IF \E venue_name \in food_drink_venue_names :
          Contains(venue_lower, venue_name)
          \/ Contains(source_lower, venue_name)
       THEN TRUE
     ELSE IF \E excluded \in excluded_venues : Contains(venue_lower, excluded)
       THEN FALSE
     ELSE \/ \E pattern \in food_drink_venue_types :
               WordSearch(venue_lower, pattern)
               \/ WordSearch(source_lower, pattern)
          \/ \E keyword \in food_drink_keywords : Contains(text, keyword)

\* EventValidator.is_food_and_drink_event
is_food_and_drink_event(event) ==
  LET venue_lower == lower(event.venue_name)
      source_lower == lower(event.source_name)
      text == SearchText(event)
  IN IF \E excluded \in excluded_venues : Contains(venue_lower, excluded)
       THEN FALSE
     ELSE \/ \E venue_name \in food_drink_venue_names :
               Contains(venue_lower, venue_name)
               \/ Contains(source_lower, venue_name)
          \/ \E pattern \in food_drink_venue_types :
               WordSearch(venue_lower, pattern)
               \/ WordSearch(source_lower, pattern)
          \/ \E keyword \in food_drink_keywords : Contains(text, keyword)

\* EventValidator.clean_and_enhance
clean_and_enhance(event) ==
  LET cleaned ==
        [ event EXCEPT
            !.title = clean_text(@),
            !.description = clean_text(@),
            !.venue_name = IF @ # <<>> THEN clean_text(@) ELSE @,
            !.street_address = IF @ # <<>> THEN clean_text(@) ELSE @,
            !.city = IF @ = "" THEN "Cambridge" ELSE @,
            !.state = IF @ = <<>> THEN <<"M","A">> ELSE @ ]
      flagged == [ cleaned EXCEPT !.family_friendly = is_family_friendly(cleaned) ]
  IN IF is_food_and_drink_event(flagged)
       THEN [ flagged EXCEPT !.category = "food and drink" ]
       ELSE flagged

(***************************************************************************)
(* The candidate lists on which the deduplicator is run.                   *)
(***************************************************************************)
\* the longest candidate list drawn from CoreCandidates
MaxEvents == 3

DedupTitles == {TitleA, TitleB, TitleUpperA, TitleC}
DedupStarts == {0, 3600, 3601}
DedupVenues == {<<>>, VenueAb, VenueAbc, VenueZz}
DescShort == <<"d">>
DescLong == <<"e","e">>
DescOther == <<"f","f">>

\* every combination of title, start time and venue, with a shorter and a
\* longer description
PairCandidates ==
  { EventCreate(t, d, s, v, LAMPLIGHTER) :
      t \in DedupTitles, d \in {DescShort, DescLong}, s \in DedupStarts,
      v \in DedupVenues }

\* a candidate with every optional field of the merge set
WithDetails(e, n) ==
  [ e EXCEPT !.street_address = IF n = 0 THEN <<"1">> ELSE <<"2">>,
             !.latitude = <<n>>, !.longitude = <<n + 1>>,
             !.category = IF n = 0 THEN "music" ELSE "arts",
             !.tags = IF n = 0 THEN {"live"} ELSE {"live", "jazz"},
             !.contact_email = IF n = 0 THEN "a@b.c" ELSE "d@e.f",
             !.contact_phone = IF n = 0 THEN "617" ELSE "857",
             !.website_url = IF n = 0 THEN "http://w" ELSE "http://x",
             !.image_url = IF n = 0 THEN "http://i" ELSE "http://j" ]

\* the candidates of the longer lists
CoreCandidates ==
  { EventCreate(TitleA, DescShort, 0, <<>>, LAMPLIGHTER),
    EventCreate(TitleB, DescLong, 0, <<>>, LILY_PAD),
    EventCreate(TitleUpperA, DescOther, 3600, VenueAb, LILY_PAD),
    EventCreate(TitleA, DescLong, 3601, VenueAbc, COMEDY_STUDIO),
    EventCreate(TitleC, DescShort, 3600, VenueZz, COMEDY_STUDIO),
    WithDetails(EventCreate(TitleA, DescShort, 3600, <<>>, BRATTLE), 0),
    WithDetails(EventCreate(TitleB, DescLong, 0, VenueAb, BRATTLE), 42) }

\* candidates with one coordinate only, and with none
CoordinateCandidates ==
  { [EventCreate(TitleA, DescShort, 0, <<>>, LAMPLIGHTER)
       EXCEPT !.longitude = <<7>>],
    [EventCreate(TitleA, DescLong, 0, <<>>, LILY_PAD)
       EXCEPT !.latitude = <<42>>],
    EventCreate(TitleA, DescOther, 0, <<>>, BRATTLE) }

DedupInputs ==
  UNION { [1..n -> PairCandidates] : n \in 0..2 }
  \cup UNION { [1..n -> CoreCandidates] : n \in 0..MaxEvents }
  \cup [1..2 -> CoordinateCandidates]

(***************************************************************************)
(* ScraperOrchestrator (src/scrape.py): pure parts                         *)
(***************************************************************************)
\* CI_SKIP_SOURCES
CI_SKIP_SOURCES == <<HARVARD_BOOK_STORE, BOSTON_SWING, AERONAUT>>

\* Event.venue_name, Event.street_address and Event.state:
\* Field(max_length=...), which EventCreate does not have
VENUE_MAX_LENGTH == 150
STREET_MAX_LENGTH == 200
STATE_MAX_LENGTH == 2

\* the elements of a list
Range(seq) == {seq[k] : k \in 1..Len(seq)}

\* [e for e in existing_events if e.get('source_name') in sources], from
\* existing_events[i] on
RECURSIVE records_of_sources(_, _, _)
records_of_sources(existing_events, i, sources) ==
  IF i > Len(existing_events) THEN <<>>
  ELSE (IF existing_events[i].source_name \in Range(sources)
          THEN <<existing_events[i]>> ELSE <<>>)
       \o records_of_sources(existing_events, i + 1, sources)

\* Candidates that the scrapers of the runs below return.
Description10 == [k \in 1..10 |-> "d"]
Description12 == [k \in 1..12 |-> "e"]

LampEvent == EventCreate(TitleA, Description10, 12 * 3600, <<>>, LAMPLIGHTER)
ShortTitleEvent ==
  EventCreate(<<"a","b">>, Description10, 12 * 3600, <<>>, LAMPLIGHTER)
\* within the hour of LampEvent and with its title in capitals
HarvardDuplicate ==
  EventCreate(TitleUpperA, Description12, 13 * 3600, VenueAb,
              HARVARD_BOOK_STORE)
HarvardEvent ==
  EventCreate(TitleB, Description10, 2 * 86400, <<>>, HARVARD_BOOK_STORE)
\* a duplicate of LampEvent too, with a longer description, for children
DescriptionStorytime ==
  <<"k","i","d","s"," ","s","t","o","r","y","t","i","m","e">>
HarvardStorytime ==
  EventCreate(TitleUpperA, DescriptionStorytime, 13 * 3600, <<>>,
              HARVARD_BOOK_STORE)
ComedyEvent ==
  EventCreate(TitleC, Description10, 4 * 86400, VenueZz, COMEDY_STUDIO)
\* a start time parsed with a UTC offset
ComedyAware == [ComedyEvent EXCEPT !.tz_aware = TRUE]
\* a state taken from the page's addressRegion, longer than Event allows
ComedyLongState ==
  [ComedyEvent EXCEPT !.state = <<"M","a","s","s",".">>]

SomervilleEvent ==
  EventCreate(TitleC, Description12, 3 * 86400, VenueZz, SOMERVILLE_THEATRE)

KnownCandidates ==
  { LampEvent, ShortTitleEvent, HarvardDuplicate, HarvardEvent,
    HarvardStorytime, ComedyEvent, ComedyAware, ComedyLongState,
    SomervilleEvent }
\* clean_and_enhance of these candidates, computed once
KnownEnhanced == [e \in KnownCandidates |-> clean_and_enhance(e)]

\* clean_and_enhance(event), looked up when it is known
CleanAndEnhance(event) ==
  IF event \in DOMAIN KnownEnhanced
    THEN KnownEnhanced[event]
    ELSE clean_and_enhance(event)

\* The loop of validate_events from events[i] on.  An exception of
\* validate_event is not caught: it ends the loop and the run.
RECURSIVE validate_from(_, _, _, _)
validate_from(evs, i, now, validated) ==
  IF i > Len(evs) THEN [raised |-> FALSE, validated |-> validated]
  ELSE LET event == CleanAndEnhance(evs[i])
           verdict == validate_event(event, now)
       IN IF verdict[2] = "TypeError"
            THEN [raised |-> TRUE, validated |-> validated]
          ELSE IF verdict[1]
            THEN validate_from(evs, i + 1, now, Append(validated, event))
          ELSE validate_from(evs, i + 1, now, validated)

\* ScraperOrchestrator.validate_events
validate_events(evs, now) == validate_from(evs, 1, now, <<>>)

\* Event(id=event_id, **event_create.model_dump()): pydantic rejects a venue
\* name, street address or state longer than the Event model allows
EventRejects(event_create) ==
  \/ Len(event_create.venue_name) > VENUE_MAX_LENGTH
  \/ Len(event_create.street_address) > STREET_MAX_LENGTH
  \/ Len(event_create.state) > STATE_MAX_LENGTH

\* Event(id=event_id, **event_create.model_dump()), created at time ts
Event(event_id, ts, event_create) ==
  [ f \in DOMAIN event_create \cup {"id", "scraped_at", "last_updated"} |->
      IF f = "id" THEN event_id
      ELSE IF f \in {"scraped_at", "last_updated"} THEN ts
      ELSE event_create[f] ]

\* The loop of finalize_events from events[i] on; uuid.uuid4() is the next
\* identifier never issued before (a collision of random 122-bit numbers is
\* not modelled).
RECURSIVE finalize_from(_, _, _, _, _)
finalize_from(evs, i, issued, ts, final_events) ==
  IF i > Len(evs)
    THEN [raised |-> FALSE, final_events |-> final_events, issued |-> issued]
  ELSE IF EventRejects(evs[i])
    THEN [raised |-> TRUE, final_events |-> final_events,
          issued |-> issued + 1]
  ELSE finalize_from(evs, i + 1, issued + 1, ts,
                     Append(final_events, Event(issued + 1, ts, evs[i])))

\* finalize_events with one identifier made before the loop and given to
\* every record
finalize_events_shared_id(evs, issued, ts) ==
  IF \E k \in 1..Len(evs) : EventRejects(evs[k])
    THEN [raised |-> TRUE, final_events |-> <<>>, issued |-> issued + 1]
    ELSE [raised |-> FALSE,
          final_events |-> [k \in 1..Len(evs) |-> Event(issued + 1, ts, evs[k])],
          issued |-> issued + 1]

\* ScraperOrchestrator.finalize_events
finalize_events(evs, issued, ts) == finalize_from(evs, 1, issued, ts, <<>>)

\* save_events, lines 148-161, with the failure of the read not caught
load_preserved_uncaught(file, skipped) ==
  IF skipped # <<>> /\ file.state # "missing"
    THEN IF file.state = "json"
           THEN [raised |-> FALSE,
                 preserved |-> records_of_sources(file.records, 1, skipped)]
           ELSE [raised |-> TRUE, preserved |-> <<>>]
    ELSE [raised |-> FALSE, preserved |-> <<>>]

\* save_events, lines 148-161, keeping the records of no source
load_preserved_nothing(file, skipped) ==
  [raised |-> FALSE, preserved |-> <<>>]

\* save_events, lines 148-161, keeping the stored records of every source
load_preserved_everything(file, skipped) ==
  IF file.state = "json"
    THEN [raised |-> FALSE, preserved |-> file.records]
    ELSE [raised |-> FALSE, preserved |-> <<>>]

\* save_events, lines 148-161: the stored records of the skipped sources.
\* A file that cannot be opened or parsed raises inside the try block, the
\* exception is logged and nothing is preserved.
load_preserved(file, skipped) ==
  IF skipped # <<>> /\ file.state # "missing"
    THEN IF file.state = "json"
           THEN [raised |-> FALSE,
                 preserved |-> records_of_sources(file.records, 1, skipped)]
           ELSE [raised |-> FALSE, preserved |-> <<>>]
    ELSE [raised |-> FALSE, preserved |-> <<>>]

(***************************************************************************)
(* The runs of the orchestrator: what the scrapers may return.  Three of   *)
(* the registrations of main() stand for all: one that is always made, one *)
(* that is made outside CI only, and one that is always made and comes     *)
(* later.                                                                  *)
(***************************************************************************)
\* the number of runs (invocations of main) in a behaviour
MaxRuns == 3

\* what scrape_events of a source may return
ScraperOutputs(source) ==
  IF source = LAMPLIGHTER THEN { <<LampEvent, ShortTitleEvent>> }
  ELSE IF source = HARVARD_BOOK_STORE
    THEN { <<HarvardDuplicate>>, <<HarvardEvent>>, <<HarvardStorytime>> }
  ELSE { <<ComedyEvent>>, <<ComedyAware>>, <<ComedyLongState>> }

\* main(), lines 188-214: the scrapers registered, in order
RegisteredScrapers(ci) ==
  <<LAMPLIGHTER>>
  \o (IF ~ci THEN <<HARVARD_BOOK_STORE>> ELSE <<>>)
  \o <<COMEDY_STUDIO>>

MissingFile == [state |-> "missing", records |-> <<>>]
\* a file that json.load cannot parse (empty or cut short)
BrokenFile == [state |-> "unreadable", records |-> <<>>]
JsonFile(records) == [state |-> "json", records |-> records]

(***************************************************************************)
(* scrape_local.py: the run of the scrapers that work locally only         *)
(***************************************************************************)
\* LOCAL_ONLY_SOURCES
LOCAL_ONLY_SOURCES ==
  <<HARVARD_BOOK_STORE, BOSTON_SWING, AERONAUT, SOMERVILLE_THEATRE>>

\* what the four scrapers of scrape_local return together, a scraper that
\* raises adding nothing
LocalOutputs == { <<>>, <<HarvardEvent>>, <<HarvardEvent, SomervilleEvent>> }

\* [e for e in existing_events if e.get('source_name') not in sources], from
\* existing_events[i] on
RECURSIVE records_not_of_sources(_, _, _)
records_not_of_sources(existing_events, i, sources) ==
  IF i > Len(existing_events) THEN <<>>
  ELSE (IF existing_events[i].source_name \notin Range(sources)
          THEN <<existing_events[i]>> ELSE <<>>)
       \o records_not_of_sources(existing_events, i + 1, sources)

\* main of scrape_local, lines 98-115: the file is read, the old records of
\* the local sources are dropped, the new ones added and the file written.
\* Only FileNotFoundError is caught: a file that json.load cannot parse ends
\* the run.  `written` is "written", or "unchanged" when open raises, or
\* "emptied" when the write raises after open has emptied the file.
local_save(file, new_events, written) ==
  IF file.state = "unreadable" \/ written = "unchanged" THEN file
  ELSE IF written = "emptied" THEN BrokenFile
  ELSE JsonFile(records_not_of_sources(file.records, 1, LOCAL_ONLY_SOURCES)
                \o new_events)

\* main of scrape_local, lines 86-115, for the result of its loop that
\* makes the records
local_finalized(file, finalized, written) ==
  [ store |-> IF finalized.raised THEN file
              ELSE local_save(file, finalized.final_events, written),
    issued |-> finalized.issued ]

\* main of scrape_local, lines 72-115, for the result of its validation loop
local_validated(file, validation, issued, now, written) ==
  IF validation.raised THEN [store |-> file, issued |-> issued]
  ELSE local_finalized(
         file,
         finalize_events(deduplicate_events(validation.validated), issued, now),
         written)

\* main of scrape_local: the file and the identifiers issued after it has
\* run with the scraped candidates all_events
local_main(file, all_events, issued, now, written) ==
  IF all_events = <<>> THEN [store |-> file, issued |-> issued]
  ELSE local_validated(file, validate_events(all_events, now), issued, now,
                       written)

(***************************************************************************)
(* The candidates on which the validator is run.                           *)
(***************************************************************************)
\* datetime.now(EASTERN_TZ) of the validator's runs: noon of day 100
ValidatorNow == 100 * 86400 + 12 * 3600

TitleNov12 == <<"N","o","v","1","2">>
TitleSpaced == <<"a"," ","b">>
TitleTooShort == <<" ","a","b"," ">>
TitleKids == <<"K","i","d","s"," ","N","i","g","h","t">>
TitleConcert == <<"C","o","n","c","e","r","t">>
TitleEntity == <<"R"," ","&","a","m","p",";"," ","B">>
ValidatorTitles ==
  {TitleNov12, TitleSpaced, TitleTooShort, TitleKids, TitleConcert,
   TitleEntity}

DescKids == <<"k","i","d","s"," ","s","t","o","r","y">>
DescAllAges == <<"a","l","l"," ","a","g","e","s"," ","b","e","e","r">>
DescSpaced == <<"d"," ","d"," ","d"," ","d"," ","d"," ","d">>
DescTooShort == <<"k","i","d","s">>
DescMusic == <<"l","i","v","e"," ","m","u","s","i","c">>
ValidatorDescriptions ==
  {DescKids, DescAllAges, DescSpaced, DescTooShort, DescMusic}

\* the ends of the window of validate_event and a second beyond each; 20:00
\* of the present day and the second before it
ValidatorStarts ==
  { ValidatorNow - PAST_DAYS * 86400 - 1, ValidatorNow - PAST_DAYS * 86400,
    ValidatorNow + FUTURE_DAYS * 86400, ValidatorNow + FUTURE_DAYS * 86400 + 1,
    100 * 86400 + EVENING_HOUR * 3600,
    100 * 86400 + EVENING_HOUR * 3600 - 1 }

VenueLibrary == <<"C","i","t","y"," ","L","i","b","r","a","r","y">>
VenuePub == <<"T","h","e"," ","P","u","b">>
ValidatorVenues == {<<>>, VenueLibrary, VenuePub}

ValidatorInputs ==
  { [EventCreate(t, d, s, v, src) EXCEPT !.tz_aware = aware] :
      t \in ValidatorTitles, d \in ValidatorDescriptions,
      s \in ValidatorStarts, v \in ValidatorVenues,
      src \in {LAMPLIGHTER, COMEDY_STUDIO}, aware \in BOOLEAN }

VARIABLES
  events,     \* the candidate list given to the deduplicator
  dstage,     \* "input", "compared", "deduplicated" or "repeated"
  checked,    \* <<i, j, are_duplicates(events[i], events[j])>>, once compared
  result,     \* deduplicate_events(events), once deduplicated
  again,      \* deduplicate_events(result), once repeated
  groups,     \* find_duplicates(events), once grouped
  merged      \* merge_duplicates(events), once merged

VARIABLES
  pc,                   \* the stage the run is in
  runs,                 \* the runs started so far
  is_ci,                \* main: is_ci
  skipped_sources,      \* main: skipped_sources
  scrapers,             \* ScraperOrchestrator.scrapers (source names)
  idx,                  \* the scraper the loop of run_all is at
  all_events,           \* run_all, and main of scrape_local: all_events
  validated_events,     \* run_all: validated_events
  deduplicated_events,  \* run_all: deduplicated_events
  final_events,         \* run_all: final_events
  preserved_events,     \* save_events: preserved_events
  store,                \* the file data/events.json
  issued,               \* the identifiers uuid4 has issued so far
  stages,               \* history: the stages this run has entered
  invoked,              \* history: the scrapers this run has invoked
  failed,               \* history: the scrapers that raised in this run
  collected,            \* history: gc.collect() calls of this run
  abort_cause,          \* history: what ended the run early
  store_before,         \* history: the file when save_events began, or
                        \* when the run of scrape_local did
  baseline              \* history: the skipped sources' records stored
                        \* when the present row of completed CI runs began

VARIABLES
  request,    \* the HTTP request given to the API
  astage,     \* "idle", "request", "dispatched" or "answered"
  handler,    \* the path operation the router chose
  response,   \* the response of the handler
  served      \* the file data/events.json the API reads

VARIABLES
  candidate,  \* the candidate given to the validator
  vstage,     \* "input", "cleaned", "validated" or "listed"
  enhanced,   \* clean_and_enhance(candidate), once cleaned
  subject,    \* the candidate validate_event was called on
  verdict,    \* validate_event(subject), once validated
  accepted    \* validate_events([candidate]), once listed

dvars == <<events, dstage, checked, result, again, groups, merged>>
ovars == <<pc, runs, is_ci, skipped_sources, scrapers, idx, all_events,
           validated_events, deduplicated_events, final_events,
           preserved_events, store, issued, stages, invoked, failed,
           collected, abort_cause, store_before, baseline>>
vvars == <<candidate, vstage, enhanced, subject, verdict, accepted>>
avars == <<request, astage, handler, response, served>>
vars == <<dvars, ovars, vvars, avars>>

\* datetime.now() of the present run: the runs are a day apart
Now == runs * 86400

DedupIdle ==
  /\ events = <<>>
  /\ dstage = "idle"
  /\ checked = <<>>
  /\ result = <<>>
  /\ again = <<>>
  /\ groups = <<>>
  /\ merged = <<>>

ValidatorIdle ==
  /\ candidate = <<>>
  /\ vstage = "idle"
  /\ enhanced = <<>>
  /\ subject = <<>>
  /\ verdict = <<>>
  /\ accepted = <<>>

ApiIdle ==
  /\ request = <<>>
  /\ astage = "idle"
  /\ handler = "none"
  /\ response = <<>>
  /\ served = MissingFile

OrchestratorIdle ==
  /\ pc = "Idle"
  /\ runs = 0
  /\ is_ci = FALSE
  /\ skipped_sources = <<>>
  /\ scrapers = <<>>
  /\ idx = 1
  /\ all_events = <<>>
  /\ validated_events = <<>>
  /\ deduplicated_events = <<>>
  /\ final_events = <<>>
  /\ preserved_events = <<>>
  /\ store = MissingFile
  /\ issued = 0
  /\ stages = <<>>
  /\ invoked = <<>>
  /\ failed = {}
  /\ collected = 0
  /\ abort_cause = "none"
  /\ store_before = MissingFile
  /\ baseline = {}

(***************************************************************************)
(* The deduplicator on its own                                             *)
(***************************************************************************)
DedupInit ==
  /\ events \in DedupInputs
  /\ dstage = "input"
  /\ checked = <<>>
  /\ result = <<>>
  /\ again = <<>>
  /\ groups = <<>>
  /\ merged = <<>>
  /\ OrchestratorIdle
  /\ ValidatorIdle
  /\ ApiIdle

\* are_duplicates is called on two candidates of the list
AreDuplicates ==
  /\ dstage = "input"
  /\ \E i, j \in 1..Len(events) :
       /\ i # j
       /\ checked' = <<i, j, are_duplicates(events[i], events[j])>>
  /\ dstage' = "compared"
  /\ UNCHANGED <<events, result, again, groups, merged, ovars, vvars, avars>>

\* deduplicate_events is called on the list
DeduplicateEvents ==
  /\ dstage = "input"
  /\ result' = deduplicate_events(events)
  /\ dstage' = "deduplicated"
  /\ UNCHANGED <<events, checked, again, groups, merged, ovars, vvars, avars>>

\* deduplicate_events is called on its own output
DeduplicateAgain ==
  /\ dstage = "deduplicated"
  /\ again' = deduplicate_events(result)
  /\ dstage' = "repeated"
  /\ UNCHANGED <<events, checked, result, groups, merged, ovars, vvars, avars>>

\* find_duplicates is called on the list, before or after
\* deduplicate_events was
FindDuplicates ==
  /\ dstage \in {"input", "deduplicated"}
  /\ groups' = find_duplicates(events)
  /\ dstage' = "grouped"
  /\ UNCHANGED <<events, checked, result, again, merged, ovars, vvars, avars>>

\* merge_duplicates is called on the list as one group
MergeDuplicates ==
  /\ dstage = "input"
  /\ events # <<>>
  /\ merged' = merge_duplicates(events)
  /\ dstage' = "merged"
  /\ UNCHANGED <<events, checked, result, again, groups, ovars, vvars, avars>>

DedupNext ==
  \/ AreDuplicates
  \/ DeduplicateEvents
  \/ DeduplicateAgain
  \/ FindDuplicates
  \/ MergeDuplicates

DedupSpec == DedupInit /\ [][DedupNext]_vars

(***************************************************************************)
(* The validator on its own                                                *)
(***************************************************************************)
ValidatorInit ==
  /\ candidate \in ValidatorInputs
  /\ vstage = "input"
  /\ enhanced = <<>>
  /\ subject = <<>>
  /\ verdict = <<>>
  /\ accepted = <<>>
  /\ DedupIdle
  /\ OrchestratorIdle
  /\ ApiIdle

\* clean_and_enhance is called on the candidate
CleanAndEnhanceCandidate ==
  /\ vstage = "input"
  /\ enhanced' = clean_and_enhance(candidate)
  /\ vstage' = "cleaned"
  /\ UNCHANGED <<candidate, subject, verdict, accepted, dvars, ovars, avars>>

\* validate_event is called on the candidate, as it came or cleaned
ValidateEvent ==
  /\ vstage \in {"input", "cleaned"}
  /\ subject' = IF vstage = "input" THEN candidate ELSE enhanced
  /\ verdict' = validate_event(subject', ValidatorNow)
  /\ vstage' = "validated"
  /\ UNCHANGED <<candidate, enhanced, accepted, dvars, ovars, avars>>

\* ScraperOrchestrator.validate_events is called on the list of the
\* candidate alone
ValidateCandidates ==
  /\ vstage = "input"
  /\ accepted' = validate_events(<<candidate>>, ValidatorNow)
  /\ vstage' = "listed"
  /\ UNCHANGED <<candidate, enhanced, subject, verdict, dvars, ovars, avars>>

ValidatorNext == CleanAndEnhanceCandidate \/ ValidateEvent \/ ValidateCandidates

ValidatorSpec == ValidatorInit /\ [][ValidatorNext]_vars

(***************************************************************************)
(* The runs of the orchestrator: main() and run_all()                      *)
(***************************************************************************)
Init == DedupIdle /\ OrchestratorIdle /\ ValidatorIdle /\ ApiIdle

\* the stored records of the sources in `sources`
StoredOf(file, sources) ==
  {e \in Range(file.records) : e.source_name \in Range(sources)}

Enter(stage) ==
  /\ pc' = stage
  /\ stages' = Append(stages, stage)

\* main() up to the call of run_all: a new process, in CI or not
StartRun(ci) ==
  /\ pc \in {"Idle", "Persisted", "Aborted"}
  /\ runs < MaxRuns
  /\ runs' = runs + 1
  /\ is_ci' = ci
  /\ skipped_sources' = IF ci THEN CI_SKIP_SOURCES ELSE <<>>
  /\ scrapers' = RegisteredScrapers(ci)
  /\ idx' = 1
  /\ all_events' = <<>>
  /\ validated_events' = <<>>
  /\ deduplicated_events' = <<>>
  /\ final_events' = <<>>
  /\ preserved_events' = <<>>
  /\ pc' = "Collecting"
  /\ stages' = <<"Collecting">>
  /\ invoked' = <<>>
  /\ failed' = {}
  /\ collected' = 0
  /\ abort_cause' = "none"
  /\ store_before' = store
  /\ baseline' = IF ~ci THEN {}
                 ELSE IF is_ci /\ pc = "Persisted" THEN baseline
                 ELSE StoredOf(store, CI_SKIP_SOURCES)
  /\ UNCHANGED <<store, issued, dvars, vvars, avars>>

\* the loop of run_all with gc.collect() between two scrapers only, not
\* after the last one
AfterScraperCollectsBetween ==
  /\ idx' = idx + 1
  /\ invoked' = Append(invoked, scrapers[idx])
  /\ collected' = IF idx = Len(scrapers) THEN collected ELSE collected + 1
  /\ IF idx = Len(scrapers) THEN Enter("Validating")
     ELSE UNCHANGED <<pc, stages>>
  /\ UNCHANGED <<runs, is_ci, skipped_sources, scrapers, validated_events,
                 deduplicated_events, final_events, preserved_events, store,
                 issued, abort_cause, store_before, baseline, dvars, vvars, avars>>

\* the loop of run_all has dealt with scrapers[idx]
AfterScraper ==
  /\ idx' = idx + 1
  /\ invoked' = Append(invoked, scrapers[idx])
  /\ collected' = collected + 1
  /\ IF idx = Len(scrapers) THEN Enter("Validating")
     ELSE UNCHANGED <<pc, stages>>
  /\ UNCHANGED <<runs, is_ci, skipped_sources, scrapers, validated_events,
                 deduplicated_events, final_events, preserved_events, store,
                 issued, abort_cause, store_before, baseline, dvars, vvars, avars>>

\* run_all, lines 76-86: scraper.run() returns its events
ScraperReturns ==
  /\ pc = "Collecting"
  /\ idx <= Len(scrapers)
  /\ \E out \in ScraperOutputs(scrapers[idx]) :
       all_events' = all_events \o out
  /\ UNCHANGED failed
  /\ AfterScraper

\* run_all with the exception of a scraper not caught
ScraperFailsUncaught ==
  /\ pc = "Collecting"
  /\ idx <= Len(scrapers)
  /\ failed' = failed \cup {scrapers[idx]}
  /\ invoked' = Append(invoked, scrapers[idx])
  /\ collected' = collected + 1
  /\ abort_cause' = "collector"
  /\ Enter("Aborted")
  /\ UNCHANGED <<runs, is_ci, skipped_sources, scrapers, idx, all_events,
                 validated_events, deduplicated_events, final_events,
                 preserved_events, store, issued, store_before, baseline,
                 dvars, vvars, avars>>

\* run_all, lines 76-86: scraper.run() raises; the exception is logged
ScraperFails ==
  /\ pc = "Collecting"
  /\ idx <= Len(scrapers)
  /\ failed' = failed \cup {scrapers[idx]}
  /\ UNCHANGED all_events
  /\ AfterScraper

\* an exception that nothing catches ends the process
Abort(cause) ==
  /\ abort_cause' = cause
  /\ Enter("Aborted")

\* run_all, line 91: validate_events, which cleans the candidates in place
ValidateEvents ==
  /\ pc = "Validating"
  /\ LET r == validate_events(all_events, Now)
     IN IF r.raised
          THEN /\ Abort("validate")
               /\ UNCHANGED <<all_events, validated_events>>
          ELSE /\ validated_events' = r.validated
               /\ all_events' = [k \in 1..Len(all_events) |->
                                   CleanAndEnhance(all_events[k])]
               /\ Enter("Deduplicating")
               /\ UNCHANGED abort_cause
  /\ UNCHANGED <<runs, is_ci, skipped_sources, scrapers, idx,
                 deduplicated_events, final_events, preserved_events, store,
                 issued, invoked, failed, collected, store_before, baseline,
                 dvars, vvars, avars>>

\* run_all, line 95: deduplicate_events
Deduplicate ==
  /\ pc = "Deduplicating"
  /\ deduplicated_events' = deduplicate_events(validated_events)
  /\ Enter("Finalizing")
  /\ UNCHANGED <<runs, is_ci, skipped_sources, scrapers, idx, all_events,
                 validated_events, final_events, preserved_events, store,
                 issued, invoked, failed, collected, abort_cause,
                 store_before, baseline, dvars, vvars, avars>>

\* run_all, line 99: finalize_events
FinalizeEvents ==
  /\ pc = "Finalizing"
  /\ LET r == finalize_events(deduplicated_events, issued, Now)
     IN /\ issued' = r.issued
        /\ IF r.raised
             THEN Abort("finalize") /\ UNCHANGED final_events
             ELSE /\ final_events' = r.final_events
                  /\ Enter("Saving")
                  /\ UNCHANGED abort_cause
  /\ UNCHANGED <<runs, is_ci, skipped_sources, scrapers, idx, all_events,
                 validated_events, deduplicated_events, preserved_events,
                 store, invoked, failed, collected, store_before, baseline,
                 dvars, vvars, avars>>

\* save_events, lines 143-167: the previous file is read for the records of
\* the skipped sources
LoadPreserved ==
  /\ pc = "Saving"
  /\ store_before' = store
  /\ LET r == load_preserved(store, skipped_sources)
     IN IF r.raised
          THEN Abort("read") /\ UNCHANGED preserved_events
          ELSE /\ preserved_events' = r.preserved
               /\ Enter("Writing")
               /\ UNCHANGED abort_cause
  /\ UNCHANGED <<runs, is_ci, skipped_sources, scrapers, idx, all_events,
                 validated_events, deduplicated_events, final_events, store,
                 issued, invoked, failed, collected, baseline, dvars, vvars, avars>>

\* the file written from run_all, before finalize_events has run
WriteStoreUnfinalized ==
  /\ pc = "Finalizing"
  /\ store' = JsonFile(final_events \o preserved_events)
  /\ Enter("Persisted")
  /\ UNCHANGED <<runs, is_ci, skipped_sources, scrapers, idx, all_events,
                 validated_events, deduplicated_events, final_events,
                 preserved_events, issued, invoked, failed, collected,
                 abort_cause, store_before, baseline, dvars, vvars, avars>>

\* save_events, lines 169-170: open(output_file, 'w') and json.dump succeed
WriteStore ==
  /\ pc = "Writing"
  /\ store' = JsonFile(final_events \o preserved_events)
  /\ Enter("Persisted")
  /\ UNCHANGED <<runs, is_ci, skipped_sources, scrapers, idx, all_events,
                 validated_events, deduplicated_events, final_events,
                 preserved_events, issued, invoked, failed, collected,
                 abort_cause, store_before, baseline, dvars, vvars, avars>>

\* save_events, lines 169-170: open raises and the file is as it was, or
\* open has emptied the file and json.dump or the closing of the file
\* raises, which leaves the file empty or cut short
WriteFails ==
  /\ pc = "Writing"
  /\ \E left \in {store, BrokenFile} : store' = left
  /\ Abort("write")
  /\ UNCHANGED <<runs, is_ci, skipped_sources, scrapers, idx, all_events,
                 validated_events, deduplicated_events, final_events,
                 preserved_events, issued, invoked, failed, collected,
                 store_before, baseline, dvars, vvars, avars>>

Next ==
  \/ \E ci \in BOOLEAN : StartRun(ci)
  \/ ScraperReturns
  \/ ScraperFails
  \/ ValidateEvents
  \/ Deduplicate
  \/ FinalizeEvents
  \/ LoadPreserved
  \/ WriteStore
  \/ WriteFails

Spec == Init /\ [][Next]_vars

(***************************************************************************)
(* The runs of the orchestrator and of scrape_local on the same file       *)
(***************************************************************************)
\* main() of scrape_local.py, a process of its own between the runs of the
\* orchestrator
LocalRun ==
  /\ pc \in {"Idle", "Persisted", "Aborted"}
  /\ runs < MaxRuns
  /\ runs' = runs + 1
  /\ \E out \in LocalOutputs, written \in {"written", "unchanged", "emptied"} :
       /\ all_events' = out
       /\ store' = local_main(store, out, issued, (runs + 1) * 86400,
                              written).store
       /\ issued' = local_main(store, out, issued, (runs + 1) * 86400,
                               written).issued
  /\ is_ci' = FALSE
  /\ skipped_sources' = <<>>
  /\ scrapers' = <<>>
  /\ idx' = 1
  /\ validated_events' = <<>>
  /\ deduplicated_events' = <<>>
  /\ final_events' = <<>>
  /\ preserved_events' = <<>>
  /\ pc' = "Idle"
  /\ stages' = <<>>
  /\ invoked' = <<>>
  /\ failed' = {}
  /\ collected' = 0
  /\ abort_cause' = "none"
  /\ store_before' = store
  /\ baseline' = {}
  /\ UNCHANGED <<dvars, vvars, avars>>

LocalNext == Next \/ LocalRun

LocalSpec == Init /\ [][LocalNext]_vars

(***************************************************************************)
(* Properties of the deduplicator, checked under DedupSpec                 *)
(***************************************************************************)
AtLeast(r, pct) == r[1] * 100 >= pct * r[2]

\* title similarity of the case-folded titles of a and b, a first
TitleRatio(a, b) == Ratio(lower(a.title), lower(b.title))
VenueRatio(a, b) == Ratio(lower(a.venue_name), lower(b.venue_name))

\* the duplicate relation as the specification states it, for a in first
\* place and b in second
SpecDuplicates(a, b) ==
  /\ AtLeast(TitleRatio(a, b), 85)
  /\ Abs(a.start_datetime - b.start_datetime) <= 3600
  /\ (a.venue_name # <<>> /\ b.venue_name # <<>>)
       => AtLeast(VenueRatio(a, b), 70)

Deduplicated == dstage \in {"deduplicated", "repeated"}

\* C1: deduplicate(X) has at most as many elements as X, and exactly as many
\* if and only if no two candidates of X satisfy areDuplicates.
C1_SizeEqualIffNoDuplicates ==
  Deduplicated =>
    /\ Len(result) <= Len(events)
    /\ (Len(result) = Len(events))
         <=> ~ \E i, j \in 1..Len(events) :
                 i # j /\ are_duplicates(events[i], events[j])

\* What holds of the code in place of C1: the size is kept exactly when no
\* candidate is a duplicate of a later one, the anchor in first place.
SizeEqualIffNoLaterDuplicate ==
  Deduplicated =>
    /\ Len(result) <= Len(events)
    /\ (Len(result) = Len(events))
         <=> ~ \E i, j \in 1..Len(events) :
                 i < j /\ are_duplicates(events[i], events[j])

\* C2: deduplicate is idempotent: a second pass returns the list of the
\* first, equal in size and in every field of every element.
C2_Idempotent == dstage = "repeated" => again = result

\* C3: areDuplicates(a, b) is true exactly when the title ratio is at least
\* 0.85, the start times differ by at most 3600 seconds, and, only when both
\* carry a venue name, the venue ratio is at least 0.70.
C3_AreDuplicatesExact ==
  dstage = "compared" =>
    checked[3] = SpecDuplicates(events[checked[1]], events[checked[2]])

\* C3 happens: a pair exactly one hour apart, one of them without a venue,
\* is found to be a duplicate.
C3_Witness ==
  /\ dstage = "compared"
  /\ checked[3]
  /\ Abs(events[checked[1]].start_datetime
         - events[checked[2]].start_datetime) = 3600
  /\ events[checked[1]].venue_name = <<>>
  /\ events[checked[2]].venue_name # <<>>

\* the longer of two descriptions is one of them and no shorter than either
IsLongerOf(d, d1, d2) ==
  /\ d \in {d1, d2}
  /\ Len(d) >= Len(d1)
  /\ Len(d) >= Len(d2)

\* C4: two candidates that are similar enough (whichever is taken first)
\* deduplicate to exactly one record, which has the longer description.
C4_PairMergesToLonger ==
  (/\ dstage = "deduplicated"
   /\ Len(events) = 2
   /\ (SpecDuplicates(events[1], events[2])
         \/ SpecDuplicates(events[2], events[1])))
  => /\ Len(result) = 1
     /\ IsLongerOf(result[1].description,
                   events[1].description, events[2].description)

\* What holds of the code in place of C4: the same, when the similarity is
\* that of the first candidate of the input to the second.
PairInOrderMergesToLonger ==
  (/\ dstage = "deduplicated"
   /\ Len(events) = 2
   /\ SpecDuplicates(events[1], events[2]))
  => /\ Len(result) = 1
     /\ IsLongerOf(result[1].description,
                   events[1].description, events[2].description)

(***************************************************************************)
(* Properties of the orchestrator, checked under Spec                      *)
(***************************************************************************)
\* the run has entered save_events and read what it preserves
Loaded == pc \in {"Writing", "Persisted"} \/ abort_cause = "write"

\* C5: a completed run that skips sources has written back every record of
\* those sources that the store held before it, and after a row of completed
\* runs that skip the same sources the records of those sources that the
\* store held before the first run of the row are still in the store.
C5_SkippedSourcesPreserved ==
  (pc = "Persisted" /\ skipped_sources # <<>>) =>
    /\ StoredOf(store_before, skipped_sources) \subseteq Range(store.records)
    /\ baseline \subseteq Range(store.records)

\* C5 happens: the third run ends a row of two completed runs in CI; the
\* store still holds a record of a skipped source written by the first run,
\* beside records that the second run wrote.
C5_Witness ==
  /\ pc = "Persisted" /\ is_ci /\ runs = 3
  /\ \E e \in baseline :
       e.scraped_at = 86400 /\ e \in Range(store.records)
  /\ \E f \in Range(store_before.records) : f.scraped_at = 2 * 86400

\* C6: a collector that raises does not end the run: it adds no candidate,
\* every registered collector is invoked before the run goes on, and the run
\* is never ended by a collector.
C6_CollectorFailureIsolated ==
  /\ abort_cause # "collector"
  /\ \A k \in 1..Len(all_events) : all_events[k].source_name \notin failed
  /\ pc \notin {"Idle", "Collecting"} => invoked = scrapers

\* C6 happens: the first collector raised, the later one was invoked, and
\* the run went on to write the records of the later one.
C6_Witness ==
  /\ pc = "Persisted"
  /\ LAMPLIGHTER \in failed
  /\ invoked = scrapers /\ Len(scrapers) >= 2
  /\ final_events # <<>>
  /\ store = JsonFile(final_events \o preserved_events)

\* the stages the specification names, in its order
StageOrder ==
  <<"Collecting", "Validating", "Deduplicating", "Finalizing", "Persisted">>

IsNamedStage(stage) == stage \in Range(StageOrder)

\* the stages of this run that the specification names
NamedStages == SelectSeq(stages, IsNamedStage)

\* C7: the stages of a run are entered in the order Collecting, Validating,
\* Deduplicating, Finalizing, Persisted, each at most once, and the store is
\* written only after all the candidates are finalized.
C7_StagesInOrder ==
  /\ [](/\ Len(NamedStages) <= Len(StageOrder)
        /\ \A k \in 1..Len(NamedStages) : NamedStages[k] = StageOrder[k])
  /\ [][store' # store =>
          /\ pc = "Writing"
          /\ "Finalizing" \in Range(stages)
          /\ Len(final_events) = Len(deduplicated_events)]_vars

\* C7 happens: a run has gone through the five stages and written records.
C7_Witness ==
  /\ pc = "Persisted"
  /\ NamedStages = StageOrder
  /\ store.records # <<>>

\* C8: after a write that failed, the store is the complete previous content
\* or the complete new content.
C8_WriteAllOrNothing ==
  (pc = "Aborted" /\ abort_cause = "write") =>
    store \in {store_before, JsonFile(final_events \o preserved_events)}

\* C9: a store that is missing or cannot be read is an empty prior store: the
\* run is not ended by the read, preserves nothing, and writes the records
\* it has finalized.
C9_UnreadableStoreIsEmpty ==
  /\ abort_cause # "read"
  /\ (Loaded /\ store_before.state # "json") => preserved_events = <<>>
  /\ (pc = "Persisted" /\ store_before.state # "json")
       => store = JsonFile(final_events)

\* C9 happens: a run that skips sources found a store it could not read and
\* has written the records it finalized.
C9_Witness ==
  /\ pc = "Persisted"
  /\ skipped_sources # <<>>
  /\ store_before = BrokenFile
  /\ final_events # <<>>
  /\ store = JsonFile(final_events)

\* the identifiers of a list of records
IdsOf(records) == {records[k].id : k \in 1..Len(records)}

\* the candidates of a list carry no identifier
NoIds(candidates) ==
  \A k \in 1..Len(candidates) : "id" \notin DOMAIN candidates[k]

\* the run has finalized its candidates
Finalized == pc \in {"Saving", "Writing", "Persisted"} \/ abort_cause = "write"

NonWhitespace(text) == Cardinality({i \in 1..Len(text) : text[i] \notin Whitespace})

\* validate_events returned the list of the accepted candidates
Listed == vstage = "listed" /\ ~accepted.raised

\* C11: every candidate that validation passes on has, after cleaning, a
\* title of at least 3 and a description of at least 10 characters that are
\* not whitespace.
C11_AcceptedHaveNonWhitespace ==
  Listed =>
    \A k \in 1..Len(accepted.validated) :
      /\ NonWhitespace(accepted.validated[k].title) >= 3
      /\ NonWhitespace(accepted.validated[k].description) >= 10

\* What holds of the code in place of C11: the bounds are on the length of
\* the cleaned text between its first and last character that is not
\* whitespace, the spaces inside counted.
AcceptedHaveStrippedLengths ==
  Listed =>
    \A k \in 1..Len(accepted.validated) :
      /\ Len(strip(accepted.validated[k].title)) >= 3
      /\ Len(strip(accepted.validated[k].description)) >= 10

\* validate_event was called and its outcome recorded
Validated == vstage = "validated"

\* the closed window of start times around the local time `now`
InWindow(start, now) ==
  now - 30 * 86400 <= start /\ start <= now + 730 * 86400

\* C12: validate_event decides, without failing, whether or not the start
\* time carries a time zone, and accepts only a start time in the closed
\* window from 30 days before to 730 days after the local time.
C12_WindowDecided ==
  Validated =>
    /\ verdict[2] # "TypeError"
    /\ verdict[1] => InWindow(subject.start_datetime, ValidatorNow)

\* What holds of the code in place of C12: the same for a start time that
\* carries no time zone.
NaiveWindowDecided ==
  (Validated /\ ~subject.tz_aware) =>
    /\ verdict[2] # "TypeError"
    /\ verdict[1] => InWindow(subject.start_datetime, ValidatorNow)

\* the reason of the first check that fails, in the order title length,
\* description length, start time in the window, quality of the title;
\* "None" when none fails
FirstFailure(event, now) ==
  IF Len(strip(event.title)) < 3 THEN "Title is too short"
  ELSE IF Len(strip(event.description)) < 10 THEN "Description is too short"
  ELSE IF event.start_datetime < now - 30 * 86400
    THEN "Event date is too far in the past"
  ELSE IF event.start_datetime > now + 730 * 86400
    THEN "Event date is too far in the future"
  ELSE IF is_low_quality_title(event.title)
    THEN "Title appears to be low quality"
  ELSE "None"

\* C13: when validate_event returns, the reason it reports is that of the
\* first failing check in the order title length, description length, start
\* time, quality of the title, and an accepted candidate carries no reason.
C13_FirstFailureReported ==
  (Validated /\ verdict[2] # "TypeError") =>
    /\ verdict[2] = FirstFailure(subject, ValidatorNow)
    /\ verdict[1] <=> verdict[2] = "None"

\* C13 happens: a candidate with a description that is too short and a title
\* of low quality is rejected for the description.
C13_Witness ==
  /\ Validated
  /\ Len(strip(subject.description)) < 10
  /\ is_low_quality_title(subject.title)
  /\ verdict = <<FALSE, "Description is too short">>

\* a title that is a 3-letter month abbreviation followed by one or two
\* digits, in any case
MonthDayTitle(title) ==
  /\ Len(title) \in {4, 5}
  /\ \E m \in month_abbreviations : lower(Slice(title, 1, 3)) = m
  /\ \A i \in 4..Len(title) : title[i] \in Digits

\* C14: a candidate whose title is a month abbreviation followed by a day
\* number, with a valid description and a start time inside the window, is
\* rejected for the low quality of its title.
C14_MonthDayTitleRejected ==
  (/\ Validated
   /\ MonthDayTitle(subject.title)
   /\ Len(strip(subject.description)) >= 10
   /\ InWindow(subject.start_datetime, ValidatorNow))
  => verdict = <<FALSE, "Title appears to be low quality">>

\* What holds of the code in place of C14: the same for a start time that
\* carries no time zone.
NaiveMonthDayTitleRejected ==
  (/\ Validated
   /\ ~subject.tz_aware
   /\ MonthDayTitle(subject.title)
   /\ Len(strip(subject.description)) >= 10
   /\ InWindow(subject.start_datetime, ValidatorNow))
  => verdict = <<FALSE, "Title appears to be low quality">>

\* C14 happens for such a start time: "Nov12" is rejected for its title.
MonthDayTitleSeen ==
  /\ Validated
  /\ ~subject.tz_aware
  /\ subject.title = TitleNov12
  /\ verdict = <<FALSE, "Title appears to be low quality">>

\* clean_and_enhance was called and its result recorded
Cleaned == vstage = "cleaned"

\* title and description of the cleaned candidate, case-folded, as
\* is_family_friendly reads them
EnhancedText == lower(enhanced.title \o <<" ">> \o enhanced.description)

WordKids == <<"k","i","d","s">>

\* the text holds one of the phrases that count at any hour
HasExplicitPhrase(text) == \E phrase \in explicit_family : Contains(text, phrase)

\* C15: from 20:00 on the family-friendly flag is false unless title and
\* description hold one of the explicit phrases, so the word "kids" alone
\* does not set it; before 20:00 the word "kids" sets it.
C15_EveningCutoff ==
  Cleaned =>
    /\ (HourOf(enhanced.start_datetime) >= 20 /\ ~HasExplicitPhrase(EnhancedText))
         => ~enhanced.family_friendly
    /\ (HourOf(enhanced.start_datetime) < 20 /\ WordSearch(EnhancedText, WordKids))
         => enhanced.family_friendly

\* C15 happens: at 20:00 a candidate whose text holds "kids" and no explicit
\* phrase is not flagged.
C15_Witness ==
  /\ Cleaned
  /\ HourOf(enhanced.start_datetime) = 20
  /\ WordSearch(EnhancedText, WordKids)
  /\ ~HasExplicitPhrase(EnhancedText)
  /\ ~enhanced.family_friendly

\* the venue name holds "library", "branch", "museum", "theater", "theatre",
\* "school" or "church", in any case
ExcludedVenue(venue_name) ==
  \E excluded \in excluded_venues : Contains(lower(venue_name), excluded)

WordBeer == <<"b","e","e","r">>

\* C16: when the venue name holds one of the excluded words,
\* clean_and_enhance does not change the category to food and drink,
\* whatever the source name, the title and the description.
C16_ExclusionFirst ==
  (Cleaned /\ ExcludedVenue(enhanced.venue_name)) =>
    /\ enhanced.category = candidate.category
    /\ enhanced.category # "food and drink"

\* C16 happens: a candidate at a library, from a brewery's page and with
\* "beer" in its text, keeps its category.
C16_Witness ==
  /\ Cleaned
  /\ enhanced.venue_name = VenueLibrary
  /\ enhanced.source_name = LAMPLIGHTER
  /\ Contains(EnhancedText, WordBeer)
  /\ enhanced.category = ""

(***************************************************************************)
(* Properties of the runs with scrape_local, checked under LocalSpec       *)
(***************************************************************************)
\* C17: the records of the local-only sources that the store held before a
\* run of the orchestrator in CI are still in the store when the run has
\* completed.
C17_LocalOnlyPreservedByCI ==
  (pc = "Persisted" /\ is_ci) =>
    StoredOf(store_before, LOCAL_ONLY_SOURCES) \subseteq Range(store.records)

\* What holds of the code in place of C17: the same for the sources of
\* CI_SKIP_SOURCES, which lacks Somerville Theatre.
SkippedPreservedByCI ==
  (pc = "Persisted" /\ is_ci) =>
    StoredOf(store_before, CI_SKIP_SOURCES) \subseteq Range(store.records)

\* the run in CI has kept a record of Harvard Book Store and lost one of
\* Somerville Theatre, both stored before it
SomervilleLostByCI ==
  /\ pc = "Persisted" /\ is_ci
  /\ \E e \in Range(store_before.records) :
       e.source_name = HARVARD_BOOK_STORE /\ e \in Range(store.records)
  /\ \E e \in Range(store_before.records) :
       e.source_name = SOMERVILLE_THEATRE /\ e \notin Range(store.records)

(***************************************************************************)
(* Properties of find_duplicates and merge_duplicates                      *)
(***************************************************************************)
\* the list is a chain: the first and the second candidate are duplicates,
\* the second and the third are, the first and the third are not
Chain ==
  /\ Len(events) = 3
  /\ are_duplicates(events[1], events[2])
  /\ are_duplicates(events[2], events[3])
  /\ ~are_duplicates(events[1], events[3])

\* C18: for three candidates in input order A, B, C where A and B are
\* duplicates, B and C are duplicates and A and C are not, find_duplicates
\* puts all three in one group.
C18_ChainGroupedTogether ==
  (dstage = "grouped" /\ Chain) => groups = << <<1, 2, 3>> >>

\* C18 as the code has it: for such a chain find_duplicates emits the one
\* group of A and B; C, which is compared with the anchor A only, is in no
\* group.
C18_ChainGroupsAnchorPair ==
  (dstage = "grouped" /\ Chain) => groups = << <<1, 2>> >>

\* find_duplicates has grouped a chain
C18_Witness == dstage = "grouped" /\ Chain /\ groups = << <<1, 2>> >>

\* the indices the groups before group g consumed
ConsumedBefore(g) ==
  UNION { {groups[h][k] : k \in 1..Len(groups[h])} : h \in 1..(g - 1) }

\* the indices consumed by the groups whose anchor is before index i
ConsumedByAnchorsBefore(i) ==
  UNION { {groups[h][k] : k \in 1..Len(groups[h])} :
            h \in {h \in 1..Len(groups) : groups[h][1] < i} }

\* the later indices that join the group of anchor i, which is group g
JoinersOf(i, g) ==
  { j \in (i + 1)..Len(events) :
      j \notin ConsumedBefore(g) /\ are_duplicates(events[i], events[j]) }

\* group g is its anchor followed by exactly the joiners, in list order
AnchorGroup(g) ==
  LET group == groups[g]
      i == group[1]
  IN /\ i \notin ConsumedBefore(g)
     /\ Len(group) > 1
     /\ {group[k] : k \in 2..Len(group)} = JoinersOf(i, g)
     /\ \A k \in 1..(Len(group) - 1) : group[k] < group[k + 1]
     /\ \A h \in 1..(g - 1) : groups[h][1] < i

\* index i, in no group, had no later unconsumed duplicate when its turn
\* as an anchor came
NoGroupToEmit(i) ==
  \A j \in (i + 1)..Len(events) :
    j \in ConsumedByAnchorsBefore(i) \/ ~are_duplicates(events[i], events[j])

\* the indices that are in no group
Ungrouped == (1..Len(events)) \ GroupedIndices(groups)

\* C19: find_duplicates is anchor-only clustering: every group is an anchor
\* that no earlier group consumed plus exactly the later indices, not
\* consumed by an earlier group, that are duplicates of the anchor; no
\* group has one member only; a candidate in no group is in the output of
\* deduplicate_events unchanged, after one merged event per group.
C19_AnchorOnlyClustering ==
  dstage = "grouped" =>
    /\ \A g \in 1..Len(groups) : AnchorGroup(g)
    /\ \A i \in Ungrouped : NoGroupToEmit(i)
    /\ result # <<>> =>
         /\ Len(result) = Len(groups) + Cardinality(Ungrouped)
         /\ \A i \in Ungrouped :
              \E k \in (Len(groups) + 1)..Len(result) : result[k] = events[i]

\* a candidate that is a duplicate of a member of the group, not of its
\* anchor, stayed out of the group and passed through unchanged
C19_Witness ==
  /\ dstage = "grouped"
  /\ result # <<>>
  /\ Len(events) = 3
  /\ groups = << <<1, 2>> >>
  /\ are_duplicates(events[2], events[3])
  /\ result[2] = events[3]

\* the first member of the merged group whose field is non-empty, the base
\* when the field is empty in every member
FirstMember(NonEmpty(_)) ==
  LET S == {k \in 1..Len(events) : NonEmpty(events[k])}
  IN IF S = {} THEN 1 ELSE CHOOSE k \in S : \A m \in S : k <= m

\* the text fields and the tags are merged first-non-empty-wins
TextFieldsFirstNonEmpty ==
  /\ merged.venue_name
       = events[FirstMember(LAMBDA e : e.venue_name # <<>>)].venue_name
  /\ merged.street_address
       = events[FirstMember(LAMBDA e : e.street_address # <<>>)].street_address
  /\ merged.category
       = events[FirstMember(LAMBDA e : e.category # "")].category
  /\ merged.contact_email
       = events[FirstMember(LAMBDA e : e.contact_email # "")].contact_email
  /\ merged.contact_phone
       = events[FirstMember(LAMBDA e : e.contact_phone # "")].contact_phone
  /\ merged.website_url
       = events[FirstMember(LAMBDA e : e.website_url # "")].website_url
  /\ merged.image_url
       = events[FirstMember(LAMBDA e : e.image_url # "")].image_url
  /\ merged.tags = UNION {events[k].tags : k \in 1..Len(events)}

\* latitude and longitude of the member at index k, as a pair
Coordinates(k) == <<events[k].latitude, events[k].longitude>>

\* C20: merge_duplicates is first-non-empty-wins in group order: venue
\* name, street address, latitude and longitude as a pair, category,
\* contact email, contact phone, website URL and image URL of the merged
\* event are those of the first member, base first, in which the field is
\* non-empty, and the merged tags are the union of the members' tags.
C20_FirstNonEmptyWins ==
  dstage = "merged" =>
    /\ TextFieldsFirstNonEmpty
    /\ <<merged.latitude, merged.longitude>>
         = Coordinates(FirstMember(LAMBDA e : e.latitude # <<>>
                                              \/ e.longitude # <<>>))

\* What merge_duplicates does: the pair is that of the first member whose
\* latitude is neither None nor 0.0.
FirstTruthyLatitudeWins ==
  dstage = "merged" =>
    /\ TextFieldsFirstNonEmpty
    /\ <<merged.latitude, merged.longitude>>
         = Coordinates(FirstMember(LAMBDA e : TruthyFloat(e.latitude)))

\* a base at latitude 0.0 got the coordinates of a later member
ZeroLatitudeReplaced ==
  /\ dstage = "merged"
  /\ events[1].latitude = <<0>>
  /\ merged.latitude # <<0>>
  /\ merged.longitude # events[1].longitude

\* what the merge leaves of the base outside its coordinates: the fields
\* it never assigns, the text fields it fills only when empty, the
\* description, which only a longer one replaces, and the tags
BaseTextKept ==
  LET base == events[1]
  IN /\ merged.title = base.title
     /\ merged.start_datetime = base.start_datetime
     /\ merged.source_name = base.source_name
     /\ \/ merged.description = base.description
        \/ Len(merged.description) > Len(base.description)
     /\ base.venue_name # <<>> => merged.venue_name = base.venue_name
     /\ base.street_address # <<>>
          => merged.street_address = base.street_address
     /\ base.category # "" => merged.category = base.category
     /\ base.contact_email # "" => merged.contact_email = base.contact_email
     /\ base.contact_phone # "" => merged.contact_phone = base.contact_phone
     /\ base.website_url # "" => merged.website_url = base.website_url
     /\ base.image_url # "" => merged.image_url = base.image_url
     /\ base.tags \subseteq merged.tags

\* C21: merge_duplicates never removes or shortens information of the
\* base: every field that is non-empty in the first member has the base's
\* value in the merged event, the description excepted, which only a
\* strictly longer one replaces; this includes a longitude the base has
\* without a latitude; every tag of the base is among the merged tags.
C21_BaseInformationKept ==
  dstage = "merged" =>
    /\ BaseTextKept
    /\ events[1].latitude # <<>> => merged.latitude = events[1].latitude
    /\ events[1].longitude # <<>> => merged.longitude = events[1].longitude

\* What merge_duplicates keeps: the coordinates too when the base's
\* latitude is neither None nor 0.0.
BaseKeptBesideFalsyLatitude ==
  dstage = "merged" =>
    /\ BaseTextKept
    /\ TruthyFloat(events[1].latitude) =>
         /\ merged.latitude = events[1].latitude
         /\ merged.longitude = events[1].longitude

\* the longitude of a base without latitude was replaced by None
LongitudeLost ==
  /\ dstage = "merged"
  /\ events[1].latitude = <<>>
  /\ events[1].longitude # <<>>
  /\ merged.longitude = <<>>

(***************************************************************************)
(* Properties of the text cleaning                                         *)
(***************************************************************************)
\* no whitespace at either end and no two whitespace characters in a row
WhitespaceNormalized(text) ==
  /\ text # <<>> => text[1] \notin Whitespace /\ text[Len(text)] \notin Whitespace
  /\ \A k \in 1..(Len(text) - 1) :
       ~(text[k] \in Whitespace /\ text[k + 1] \in Whitespace)

\* the text holds a named-entity reference, &name;
HasEntity(text) ==
  \E i \in 1..Len(text) :
    LET n == run_of(text, i + 1, LowerLetters)
    IN text[i] = "&" /\ n >= 1 /\ i + n + 1 <= Len(text)
       /\ text[i + n + 1] = ";"

\* C22: after clean_and_enhance the title, the description, the venue name
\* and the street address have no whitespace at either end and no run of
\* two or more whitespace characters, also when the input text holds HTML
\* named-entity references.
C22_CleanedIsNormalized ==
  vstage = "cleaned" =>
    /\ WhitespaceNormalized(enhanced.title)
    /\ WhitespaceNormalized(enhanced.description)
    /\ WhitespaceNormalized(enhanced.venue_name)
    /\ WhitespaceNormalized(enhanced.street_address)

\* What clean_text achieves: texts without a named-entity reference are
\* whitespace-normalized.
CleanedWithoutEntityIsNormalized ==
  vstage = "cleaned" =>
    /\ ~HasEntity(candidate.title) => WhitespaceNormalized(enhanced.title)
    /\ WhitespaceNormalized(enhanced.description)
    /\ WhitespaceNormalized(enhanced.venue_name)
    /\ WhitespaceNormalized(enhanced.street_address)

\* a title with a named-entity reference was cleaned to one with a run of
\* spaces
EntityLeavesRun ==
  /\ vstage = "cleaned"
  /\ HasEntity(candidate.title)
  /\ ~WhitespaceNormalized(enhanced.title)

(***************************************************************************)
(* Properties of the collecting loop                                       *)
(***************************************************************************)
\* C23: during Collecting the registered scrapers are invoked one at a
\* time in registration order, each exactly once in a run, and gc.collect()
\* has run after every one of them, failed or not, before the next
\* starts: the scrapers invoked so far are the first ones registered, the
\* loop stands at the one after them, the reclamations are as many as the
\* invocations, the failed scrapers are among the invoked ones, and a run
\* beyond Collecting has invoked them all.
C23_OneAtATimeInOrder ==
  /\ Len(invoked) <= Len(scrapers)
  /\ \A k \in 1..Len(invoked) : invoked[k] = scrapers[k]
  /\ \A k, m \in 1..Len(invoked) : invoked[k] = invoked[m] => k = m
  /\ collected = Len(invoked)
  /\ failed \subseteq Range(invoked)
  /\ pc = "Collecting" => idx = Len(invoked) + 1
  /\ pc \notin {"Idle", "Collecting"} => invoked = scrapers

\* a run has left Collecting after a scraper failed and a later one was
\* invoked, with a reclamation for each
C23_Witness ==
  /\ pc = "Validating"
  /\ Len(scrapers) >= 2
  /\ scrapers[1] \in failed
  /\ invoked = scrapers
  /\ collected = Len(scrapers)

(***************************************************************************)
(* Properties of the Validating stage                                      *)
(***************************************************************************)
\* validate_event raises on the candidate, once cleaned
RaisesInValidation(event) ==
  validate_event(CleanAndEnhance(event), Now)[2] = "TypeError"

\* C24: a failure raised while one candidate is cleaned or validated is
\* caught: no run is ended by the Validating stage, and the run goes on
\* with the candidates that did not fail.
C24_ValidationFailureCaught ==
  /\ abort_cause # "validate"
  /\ (pc \in {"Deduplicating", "Finalizing", "Saving", "Writing", "Persisted"})
       => \A k \in 1..Len(all_events) :
            (~RaisesInValidation(all_events[k])
               /\ validate_event(all_events[k], Now)[1])
              => all_events[k] \in Range(validated_events)

\* What validate_events does: a run is ended by the Validating stage only
\* when validate_event raises on one of its candidates, and a run that
\* goes on has validated them all.
ValidationEndsRunOnlyOnRaise ==
  /\ abort_cause = "validate"
       => \E k \in 1..Len(all_events) : RaisesInValidation(all_events[k])
  /\ (pc \in {"Deduplicating", "Finalizing", "Saving", "Writing", "Persisted"})
       => \A k \in 1..Len(all_events) :
            /\ ~RaisesInValidation(all_events[k])
            /\ validate_event(all_events[k], Now)[1]
                 => all_events[k] \in Range(validated_events)

\* a candidate on which validate_event raised has ended the run, and the
\* valid candidate collected with it went nowhere
ValidationEndedRun ==
  /\ pc = "Aborted"
  /\ abort_cause = "validate"
  /\ \E k \in 1..Len(all_events) : validate_event(CleanAndEnhance(all_events[k]), Now)[1]
  /\ validated_events = <<>>
  /\ store = store_before

(***************************************************************************)
(* The API (src/src/api/main.py)                                           *)
(***************************************************************************)
\* The path operations in the order their decorators register them.  A
\* path is the list of its segments; "{event_id}" is a path parameter.
Routes ==
  << [method |-> "GET", path |-> <<>>, endpoint |-> "root"],
     [method |-> "GET", path |-> <<"health">>, endpoint |-> "health_check"],
     [method |-> "GET", path |-> <<"version">>, endpoint |-> "version_check"],
     [method |-> "GET", path |-> <<"events">>, endpoint |-> "get_events"],
     [method |-> "GET", path |-> <<"events", "{event_id}">>,
      endpoint |-> "get_event"],
     [method |-> "GET", path |-> <<"events", "search">>,
      endpoint |-> "search_events"],
     [method |-> "GET", path |-> <<"categories">>,
      endpoint |-> "get_categories"],
     [method |-> "GET", path |-> <<"sources">>, endpoint |-> "get_sources"],
     [method |-> "GET", path |-> <<"stats">>, endpoint |-> "get_stats"],
     [method |-> "POST", path |-> <<"chat">>,
      endpoint |-> "chat_with_events"] >>

\* the path of the request matches the path of the route; the path
\* parameter {event_id}, of type str, matches any one segment
path_matches(route, path) ==
  /\ Len(path) = Len(route.path)
  /\ \A k \in 1..Len(path) :
       route.path[k] = "{event_id}" \/ route.path[k] = path[k]

\* The router of the framework takes the routes in the order of their
\* registration: the first one whose path and method match handles the
\* request; when only paths match, the request is answered 405; when none
\* does, 404.
dispatch(req) ==
  LET full == {k \in 1..Len(Routes) :
                 path_matches(Routes[k], req.path)
                   /\ Routes[k].method = req.method}
      partial == {k \in 1..Len(Routes) : path_matches(Routes[k], req.path)}
  IN IF full # {}
       THEN Routes[CHOOSE k \in full : \A m \in full : k <= m].endpoint
     ELSE IF partial # {} THEN "method_not_allowed"
     ELSE "not_found"

\* load_events: an absent file and one that cannot be loaded give no events
load_events(file) == IF file.state = "json" THEN file.records ELSE <<>>

\* the records at the indices `keep`, in the order of the list
records_at(records, keep) ==
  [i \in 1..Cardinality(keep) |->
     records[CHOOSE k \in keep : Cardinality({m \in keep : m <= k}) = i]]

\* get_event: the first stored event with the identifier, or 404
get_event(file, event_id) ==
  LET stored == load_events(file)
      found == records_at(stored, {k \in 1..Len(stored) :
                                     stored[k].id = event_id})
  IN IF found # <<>> THEN [status |-> 200, body |-> <<found[1].id>>]
     ELSE [status |-> 404, body |-> <<>>]

SEARCH_MIN_LENGTH == 2
SEARCH_DEFAULT_LIMIT == 50
SEARCH_MAX_LIMIT == 500

\* the events with the query in the title, in their order, followed by
\* those with it in the description only: the filter loop of search_events
\* and its sort
search_results(stored, query) ==
  records_at(stored, {k \in 1..Len(stored) :
                        Contains(lower(stored[k].title), query)})
  \o records_at(stored, {k \in 1..Len(stored) :
                           /\ ~Contains(lower(stored[k].title), query)
                           /\ Contains(lower(stored[k].description), query)})

\* search_events: q is required and has two characters at least, limit is
\* between 1 and 500; the body is the identifiers of results[:limit]
search_events(file, q, limit) ==
  IF Len(q) < SEARCH_MIN_LENGTH \/ limit < 1 \/ limit > SEARCH_MAX_LIMIT
    THEN [status |-> 422, body |-> <<>>]
  ELSE [status |-> 200,
        body |-> [k \in 1..MinOf({limit,
                                  Len(search_results(load_events(file),
                                                     lower(q)))}) |->
                    search_results(load_events(file), lower(q))[k].id]]

\* the response to a request the router gave to `endpoint`; the bodies of
\* root and health_check do not depend on the request and are left out
respond(endpoint, req, file) ==
  IF endpoint = "get_event" THEN get_event(file, req.path[2])
  ELSE IF endpoint = "search_events"
    THEN search_events(file, req.q, req.limit)
  ELSE IF endpoint = "method_not_allowed" THEN [status |-> 405, body |-> <<>>]
  ELSE IF endpoint = "not_found" THEN [status |-> 404, body |-> <<>>]
  ELSE [status |-> 200, body |-> <<>>]

\* the files the API reads: none, one that does not load, and events with
\* "ba" in the title or in the description only
ApiFiles ==
  { MissingFile, BrokenFile, JsonFile(<<Event("id1", 0, LampEvent)>>),
    JsonFile(<<Event("id2", 0,
                     [ComedyEvent EXCEPT
                        !.description =
                          <<"b","a","d","d","d","d","d","d","d","d">>]),
               Event("id1", 0, LampEvent)>>) }

\* requests: q is <<>> when the query has none, limit is the default when
\* the query has none
ApiRequests ==
  [method : {"GET", "POST"},
   path : { <<>>, <<"health">>, <<"events", "search">>, <<"events", "id1">>,
            <<"events", "id9">>, <<"events", "search", "id1">>,
            <<"search">> },
   q : { <<>>, <<"a">>, <<"b","a">>, <<"B","A">>, <<"z","z">> },
   limit : {0, 1, SEARCH_DEFAULT_LIMIT}]

ApiInit ==
  /\ request \in ApiRequests
  /\ served \in ApiFiles
  /\ astage = "request"
  /\ handler = "none"
  /\ response = <<>>
  /\ DedupIdle
  /\ OrchestratorIdle
  /\ ValidatorIdle

\* the router chooses the path operation of the request
Dispatch ==
  /\ astage = "request"
  /\ handler' = dispatch(request)
  /\ astage' = "dispatched"
  /\ UNCHANGED <<request, response, served, dvars, ovars, vvars>>

\* the path operation answers the request
Respond ==
  /\ astage = "dispatched"
  /\ response' = respond(handler, request, served)
  /\ astage' = "answered"
  /\ UNCHANGED <<request, handler, served, dvars, ovars, vvars>>

ApiNext == Dispatch \/ Respond

ApiSpec == ApiInit /\ [][ApiNext]_vars

(***************************************************************************)
(* Properties of the API                                                   *)
(***************************************************************************)
\* a GET request for /events/search with a valid query
ValidSearch ==
  /\ request.method = "GET"
  /\ request.path = <<"events", "search">>
  /\ Len(request.q) >= SEARCH_MIN_LENGTH
  /\ request.limit \in 1..SEARCH_MAX_LIMIT

\* C25: a GET request for /events/search with a valid query is dispatched
\* to the search handler, not to the handler that gets an event by its
\* identifier.
C25_SearchIsServed ==
  (astage \in {"dispatched", "answered"} /\ ValidSearch)
    => handler = "search_events"

\* What the API does: the request goes to get_event with the identifier
\* "search" and is answered 404 when no stored event has it.
SearchGoesToGetEvent ==
  /\ (astage \in {"dispatched", "answered"} /\ ValidSearch)
       => handler = "get_event"
  /\ (astage = "answered" /\ ValidSearch) => response.status = 404
  /\ handler # "search_events"

\* a valid search for a text a stored event has in its title was answered
\* 404
SearchNotFound ==
  /\ astage = "answered"
  /\ ValidSearch
  /\ \E k \in 1..Len(served.records) :
       Contains(lower(served.records[k].title), lower(request.q))
  /\ response.status = 404

(***************************************************************************)
(* Properties of the store after a run                                     *)
(***************************************************************************)
\* the records the store held when save_events began whose source is
\* skipped in this run, in their order
PreviousOfSkipped ==
  SelectSeq(store_before.records,
            LAMBDA e : e.source_name \in Range(skipped_sources))

\* C26: after a completed run the store is the records finalized in this
\* run followed by the previously stored records of the skipped sources,
\* these as they were; the previously stored records of every other
\* source, a registered one whose scraper failed included, are not in the
\* store.
C26_StoreIsNewPlusSkipped ==
  pc = "Persisted" =>
    /\ store = JsonFile(final_events \o PreviousOfSkipped)
    /\ \A k \in 1..Len(final_events) : final_events[k].scraped_at = Now
    /\ \A e \in Range(store_before.records) :
         e.source_name \notin Range(skipped_sources)
           => e \notin Range(store.records)

\* a run in which a registered scraper failed has completed, and the
\* records of that source the store held are gone, while the run wrote
\* records of another source
C26_Witness ==
  /\ pc = "Persisted"
  /\ \E e \in Range(store_before.records) :
       /\ e.source_name \in failed
       /\ \A f \in Range(store.records) : f.source_name # e.source_name
  /\ final_events # <<>>

(***************************************************************************)
(* Properties of the groups and of the size of the output                  *)
(***************************************************************************)
\* the indices of group g
MembersOf(g) == {groups[g][k] : k \in 1..Len(groups[g])}

\* the position in the output of the element the candidate at index i
\* contributes to: its group's, or its own after those of the groups
OutputPositions(i) ==
  {g \in 1..Len(groups) : i \in MembersOf(g)}
  \cup {Len(groups) + k : k \in {k \in 1..Len(events) :
          /\ i \in Ungrouped
          /\ k = Cardinality({m \in Ungrouped : m <= i})}}

Reorderings ==
  { [k \in 1..Len(events) |-> events[p[k]]] :
      p \in {q \in [1..Len(events) -> 1..Len(events)] :
               \A a, b \in 1..Len(events) : q[a] = q[b] => a = b} }

\* are_duplicates gives the same answer for the candidates of the list in
\* both orders of its arguments, and joins them in classes
DuplicatesAreClasses ==
  /\ \A i, j \in 1..Len(events) :
       are_duplicates(events[i], events[j])
         <=> are_duplicates(events[j], events[i])
  /\ \A i, j, k \in 1..Len(events) :
       (are_duplicates(events[i], events[j])
          /\ are_duplicates(events[j], events[k]))
         => are_duplicates(events[i], events[k])

\* C28: the number of records deduplicate_events returns does not depend
\* on the order of the list: it is the same for every permutation of it.
C28_SizeIgnoresOrder ==
  dstage = "deduplicated" =>
    \A reordered \in Reorderings :
      Len(deduplicate_events(reordered)) = Len(result)

\* What holds of deduplicate_events: the size does not depend on the order
\* of a list on which are_duplicates is symmetric and transitive.
SizeIgnoresOrderOfClasses ==
  (dstage = "deduplicated" /\ DuplicatesAreClasses) =>
    \A reordered \in Reorderings :
      Len(deduplicate_events(reordered)) = Len(result)

\* a chain gave two records, and gives one with its middle candidate first
ChainOrderMatters ==
  /\ dstage = "deduplicated"
  /\ Chain
  /\ Len(result) = 2
  /\ Len(deduplicate_events(<<events[2], events[1], events[3]>>)) = 1

(***************************************************************************)
(* Properties of the derived signals of the persisted records              *)
(***************************************************************************)
\* the flag and the category of the record are what is_family_friendly and
\* is_food_and_drink_event give on the record as it is
SignalsConsistent(record) ==
  /\ record.family_friendly = is_family_friendly(record)
  /\ is_food_and_drink_event(record) => record.category = "food and drink"

\* C29: every record the run persists has a family-friendly flag equal to
\* the detection applied to its final title, description and start hour,
\* and the category food and drink whenever the rule matches its final
\* venue name, source name, title and description; records merged from a
\* group of duplicates too.
C29_SignalsMatchFinalFields ==
  pc = "Persisted" =>
    \A k \in 1..Len(final_events) : SignalsConsistent(final_events[k])

\* What the run achieves: the signals of the candidates are consistent
\* when they leave validation, and those of the persisted records are when
\* no group of duplicates was merged.
SignalsMatchWithoutMerge ==
  /\ \A k \in 1..Len(validated_events) :
       SignalsConsistent(validated_events[k])
  /\ (pc = "Persisted" /\ Len(final_events) = Len(validated_events)) =>
       \A k \in 1..Len(final_events) : SignalsConsistent(final_events[k])

\* a persisted record merged from two candidates has the description of
\* the second, which is for children, and the flag of the first, which is
\* not
MergedFlagStale ==
  /\ pc = "Persisted"
  /\ Len(final_events) < Len(validated_events)
  /\ \E k \in 1..Len(final_events) :
       /\ final_events[k].description = DescriptionStorytime
       /\ is_family_friendly(final_events[k])
       /\ ~final_events[k].family_friendly

(***************************************************************************)
(* Properties of the runs of scrape_local, checked under LocalSpec         *)
(***************************************************************************)
\* a run of scrape_local has ended
LocalDone == pc = "Idle" /\ runs > 0

\* the local-only sources of which the run has scraped no candidate
Uncollected ==
  {s \in Range(LOCAL_ONLY_SOURCES) :
     \A k \in 1..Len(all_events) : all_events[k].source_name # s}

\* the stored records of the sources outside LOCAL_ONLY_SOURCES are kept
OtherSourcesKept ==
  \A e \in Range(store_before.records) :
    e.source_name \notin Range(LOCAL_ONLY_SOURCES)
      => e \in Range(store.records)

\* C30: a run of scrape_local never removes the stored records of a
\* local-only source of which it collected nothing: the store is as it was
\* when no scraper returned an event, the records of the sources whose
\* scrapers failed or returned nothing stay when others returned events,
\* and the records of the sources outside LOCAL_ONLY_SOURCES are kept.
C30_LocalKeepsUncollected ==
  LocalDone =>
    /\ all_events = <<>> => store = store_before
    /\ \A e \in Range(store_before.records) :
         e.source_name \in Uncollected => e \in Range(store.records)
    /\ OtherSourcesKept

\* What scrape_local keeps: everything when no scraper returned an event,
\* and the records of the other sources whenever it has written the file.
LocalKeepsOtherSources ==
  LocalDone =>
    /\ all_events = <<>> => store = store_before
    /\ store.state = "json" => OtherSourcesKept

\* a run that scraped Harvard Book Store only has dropped the stored
\* record of Somerville Theatre
LocalDroppedUncollected ==
  /\ LocalDone
  /\ all_events = <<HarvardEvent>>
  /\ SOMERVILLE_THEATRE \in Uncollected
  /\ \E e \in Range(store_before.records) : e.source_name = SOMERVILLE_THEATRE
  /\ store.state = "json"
  /\ \A e \in Range(store.records) : e.source_name # SOMERVILLE_THEATRE

====
